---- MODULE Spec2Model ----
(***************************************************************************)
(* A model of the delivery engine of the error-reporting SDK: the rate     *)
(* limiter, the retry manager, the circuit breaker, the quota manager, the *)
(* offline queue and the ErrorReporter that sequences them.                *)
(*                                                                         *)
(* Time is the integer `now` (Date.now()), advanced by Tick.  Each         *)
(* component has its own specification (SpecRL, SpecRetry, SpecCB, SpecER);*)
(* the variables of the other components keep their initial values there.  *)
(***************************************************************************)
EXTENDS Integers, Sequences, FiniteSets, TLC

\* ------------------------------------------------------------------ bounds
\* Last instant of the model's clock.
MaxTime == 6
\* RateLimitConfig.windowMs, in clock ticks.
windowMs == 3
\* RateLimitConfig.duplicateErrorWindow, in clock ticks.
duplicateErrorWindow == 2
\* The largest RateLimitConfig.maxRequests a limiter is built with (0..MaxRequestsCfg).
MaxRequestsCfg == 2

Keys == {"default", "key1"}
Fingerprints == {"fp1", "fp2"}
Times == 0..MaxTime

\* ------------------------------------------------------------------ state
VARIABLES
  now,            \* Date.now()
  \* RateLimiter
  maxRequests,    \* RateLimiter.config.maxRequests
  requests,       \* RateLimiter.requests: key -> RequestInfo (or NoRequestInfo)
  recentErrors,   \* RateLimiter.recentErrors: fingerprint -> timestamp (or Absent)
  rlAccepted,     \* history: key -> time -> number of canMakeRequest calls that returned true
  rlReported,     \* history: fingerprint -> time -> number of canReportError calls that returned true
  rlLast,         \* history: the most recent RateLimiter call and what it returned
  \* RetryManager
  retryRev,       \* which of the two RetryManager sources is built: "RetryManager.ts" or "part_007"
  maxRetries,     \* RetryManager.config.maxRetries
  retryCount,     \* RetryManager.retryCount: operation id -> count (or Absent)
  exec,           \* the executeWithRetry calls: where each stands, with its history
  retryCleared,   \* history: the operation ids clearRetryCount was called on
  \* CircuitBreaker
  cb,             \* the breaker's fields: state, failureCount, successCount, lastFailureTime, nextRetryTime
  cbCall,         \* the execute() calls in flight, with the state each was admitted in
  cbLast,         \* history: the most recent breaker operation and what it did
  cbConsec,       \* history: failures since the last success or reset
  cbTrippedAt,    \* history: when a failure last made failureThreshold or more in a row
  \* ErrorReporter, QuotaManager, OfflineManager, SDKMonitor
  enableOfflineSupport, \* ErrorReporterConfig.enableOfflineSupport
  isOnline,       \* OfflineManager.isOnline
  queue,          \* OfflineManager.queue: sequence of [report, timestamp, attempts]
  stored,         \* localStorage['errorReporter_queue']: the queue as last persisted
  omLast,         \* history: what the OfflineManager did last
  usage,          \* QuotaManager.usage
  metrics,        \* SDKMonitor.metrics: errorsReported, errorsDropped
  erCall,         \* the reportError calls in flight: where each stands
  erLast,         \* history: the reportError call that settled last, and how
  drain,          \* the processQueue runs: the toProcess copy each still has to send
  erStarted,      \* history: the number of reports made (reportError or queueReport calls)
  erGated,        \* history: the reports that passed both gates, and whether offline then
  erPosts,        \* history: per report made, the number of POSTs of it
  erDelivered,    \* history: the reports whose POST was answered 2xx
  \* QuotaManager on its own
  quotaStorage,   \* localStorage['errorReporter_quota']: what getItem gives
  quotaLast,      \* history: the most recent QuotaManager call and what it returned
  quotaSent,      \* history: time -> number of recordErrorSent calls
  \* ErrorReporter configuration
  reporter,       \* the ErrorReporter object: config.enabled/apiUrl/projectToken, isInitialized
  secEnv,         \* what the SecurityValidator was built with and runs in
  cfgLast,        \* history: the most recent constructor/updateConfig/reportError call
  \* SecurityValidator.sanitizeData
  sanInput,       \* the data handed to sanitizeData
  sanTwin,        \* the same data with other values under its sensitive keys
  sanResult,      \* sanitizeData of the data and of the twin
  \* BatchManager
  currentBatch,   \* the reports of the batch being filled
  batchTimeout,   \* the timer handle: NoTimer, or the time left
  batInFlight,    \* the calls of the send function that have not settled
  batHanded,      \* history: the batches handed to the send function, in order
  batLast,        \* history: the send that settled last and how its caller saw it
  \* BreadcrumbManager
  maxBreadcrumbs, \* the configured capacity
  breadcrumbs,    \* the trail
  bcAdded,        \* history: every breadcrumb added, in order
  \* createErrorFingerprint
  fpPrev,         \* the call before the last one
  fpLast,         \* the last call: its arguments and its output
  \* SDKMonitor's request counters
  sdkMetrics,     \* requestsSuccessful and requestsFailed
  sdkSends,       \* history: how each completed send attempt ended
  \* a RateLimiter that is never cleaned up
  twinRequests,     \* its requests map
  twinRecentErrors, \* its recentErrors map
  twinObs           \* history: what the latest call returned on the two limiters

rlVars == <<maxRequests, requests, recentErrors, rlAccepted, rlReported, rlLast>>
retryVars == <<retryRev, maxRetries, retryCount, exec, retryCleared>>

cbVars == <<cb, cbCall, cbLast, cbConsec, cbTrippedAt>>
erVars == <<enableOfflineSupport, isOnline, queue, stored, omLast, usage, metrics, erCall,
           erLast, drain, erStarted, erGated, erPosts, erDelivered>>

\* The components that are observed on their own only.
quotaVars == <<quotaStorage, quotaLast, quotaSent>>
configVars == <<reporter, secEnv, cfgLast>>
sanitizeVars == <<sanInput, sanTwin, sanResult>>
batchVars == <<currentBatch, batchTimeout, batInFlight, batHanded, batLast>>
breadcrumbVars == <<maxBreadcrumbs, breadcrumbs, bcAdded>>
fingerprintVars == <<fpPrev, fpLast>>
monitorVars == <<sdkMetrics, sdkSends>>
twinVars == <<twinRequests, twinRecentErrors, twinObs>>
restVars == <<quotaVars, configVars, sanitizeVars, batchVars, breadcrumbVars, fingerprintVars, monitorVars, twinVars>>

\* What a component's own operations leave alone.
notRL == <<retryVars, cbVars, erVars, restVars>>
notRetry == <<rlVars, cbVars, erVars, restVars>>
notCB == <<rlVars, retryVars, erVars, restVars>>
notER == <<retryVars, cbVars, restVars>>

RECURSIVE SumOver(_, _)
\* The sum of f[x] over the finite set S.
SumOver(f, S) ==
  IF S = {} THEN 0
  ELSE LET x == CHOOSE y \in S : TRUE IN f[x] + SumOver(f, S \ {x})

\* ============================================================ RateLimiter
\* Map.get on a key that is not in the map.
NoRequestInfo == [present |-> FALSE, count |-> 0, resetTime |-> 0]
Absent == -1

\* !lastReported: undefined and 0 are both falsy.
IsFalsy(ts) == ts = Absent \/ ts = 0

\* canMakeRequest with the full-window test off by one (count > maxRequests).
canMakeRequest_offByOne(reqs, key, t, maxReq) ==
  LET info == reqs[key] IN
  IF ~info.present \/ t >= info.resetTime
    THEN IF maxReq = 0
           THEN [ret |-> FALSE, requests |-> reqs]
           ELSE [ret |-> TRUE,
                 requests |-> [reqs EXCEPT ![key] =
                    [present |-> TRUE, count |-> 1, resetTime |-> t + windowMs]]]
    ELSE IF info.count > maxReq
           THEN [ret |-> FALSE, requests |-> reqs]
           ELSE [ret |-> TRUE,
                 requests |-> [reqs EXCEPT ![key].count = info.count + 1]]

\* RateLimiter.canMakeRequest(key) at time t: the value returned and the map afterwards.
canMakeRequest(reqs, key, t, maxReq) ==
  LET info == reqs[key] IN
  IF ~info.present \/ t >= info.resetTime
    THEN IF maxReq = 0
           THEN [ret |-> FALSE, requests |-> reqs]
           ELSE [ret |-> TRUE,
                 requests |-> [reqs EXCEPT ![key] =
                    [present |-> TRUE, count |-> 1, resetTime |-> t + windowMs]]]
    ELSE IF info.count >= maxReq
           THEN [ret |-> FALSE, requests |-> reqs]
           ELSE [ret |-> TRUE,
                 requests |-> [reqs EXCEPT ![key].count = info.count + 1]]

\* canReportError accepting again as soon as the window is reached (>= for >).
canReportError_early(recent, fp, t) ==
  LET lastReported == recent[fp] IN
  IF IsFalsy(lastReported) \/ t - lastReported >= duplicateErrorWindow
    THEN [ret |-> TRUE, recentErrors |-> [recent EXCEPT ![fp] = t]]
    ELSE [ret |-> FALSE, recentErrors |-> recent]

\* RateLimiter.canReportError(fingerprint) at time t.
canReportError(recent, fp, t) ==
  LET lastReported == recent[fp] IN
  IF IsFalsy(lastReported) \/ t - lastReported > duplicateErrorWindow
    THEN [ret |-> TRUE, recentErrors |-> [recent EXCEPT ![fp] = t]]
    ELSE [ret |-> FALSE, recentErrors |-> recent]

\* RateLimiter.getRemainingRequests(key) at time t.
getRemainingRequests(reqs, key, t, maxReq) ==
  LET info == reqs[key] IN
  IF ~info.present \/ t >= info.resetTime
    THEN maxReq
    ELSE IF maxReq - info.count > 0 THEN maxReq - info.count ELSE 0

\* RateLimiter.cleanup() at time t: the two maps afterwards.
cleanup(reqs, recent, t) ==
  [requests |-> [k \in Keys |->
      IF reqs[k].present /\ t >= reqs[k].resetTime THEN NoRequestInfo ELSE reqs[k]],
   recentErrors |-> [f \in Fingerprints |->
      IF recent[f] # Absent /\ t - recent[f] > duplicateErrorWindow THEN Absent ELSE recent[f]]]

\* The history of accepted calls with one more at time t.
Logged(log, who, t, ret) ==
  IF ret THEN [log EXCEPT ![who][t] = @ + 1] ELSE log

RLInit ==
  /\ maxRequests \in 0..MaxRequestsCfg
  /\ requests = [k \in Keys |-> NoRequestInfo]
  /\ recentErrors = [f \in Fingerprints |-> Absent]
  /\ rlAccepted = [k \in Keys |-> [t \in Times |-> 0]]
  /\ rlReported = [f \in Fingerprints |-> [t \in Times |-> 0]]
  /\ rlLast = [op |-> "none", arg |-> "none", time |-> 0, ret |-> FALSE]

RLIdle ==
  /\ maxRequests = MaxRequestsCfg
  /\ requests = [k \in Keys |-> NoRequestInfo]
  /\ recentErrors = [f \in Fingerprints |-> Absent]
  /\ rlAccepted = [k \in Keys |-> [t \in Times |-> 0]]
  /\ rlReported = [f \in Fingerprints |-> [t \in Times |-> 0]]
  /\ rlLast = [op |-> "none", arg |-> "none", time |-> 0, ret |-> FALSE]

\* A caller invokes canMakeRequest(key).
CanMakeRequest(key) ==
  LET r == canMakeRequest(requests, key, now, maxRequests) IN
  /\ requests' = r.requests
  /\ rlAccepted' = Logged(rlAccepted, key, now, r.ret)
  /\ rlLast' = [op |-> "canMakeRequest", arg |-> key, time |-> now, ret |-> r.ret]
  /\ UNCHANGED <<now, maxRequests, recentErrors, rlReported, notRL>>

\* A caller invokes canReportError(fingerprint).
CanReportError(fp) ==
  LET r == canReportError(recentErrors, fp, now) IN
  /\ recentErrors' = r.recentErrors
  /\ rlReported' = Logged(rlReported, fp, now, r.ret)
  /\ rlLast' = [op |-> "canReportError", arg |-> fp, time |-> now, ret |-> r.ret]
  /\ UNCHANGED <<now, maxRequests, requests, rlAccepted, notRL>>

\* The periodic timer runs cleanup().
Cleanup ==
  LET r == cleanup(requests, recentErrors, now) IN
  /\ requests' = r.requests
  /\ recentErrors' = r.recentErrors
  /\ rlLast' = [op |-> "cleanup", arg |-> "none", time |-> now, ret |-> FALSE]
  /\ UNCHANGED <<now, maxRequests, rlAccepted, rlReported, notRL>>

\* The clock advances.
Tick ==
  /\ now < MaxTime
  /\ now' = now + 1

RLTick == Tick /\ UNCHANGED <<rlVars, notRL>>

\* The throughput window on its own: canMakeRequest, cleanup and the clock.
NextRL ==
  \/ \E k \in Keys : CanMakeRequest(k)
  \/ Cleanup
  \/ RLTick

\* The duplicate window on its own: canReportError, cleanup and the clock.
NextDedup ==
  \/ \E f \in Fingerprints : CanReportError(f)
  \/ Cleanup
  \/ RLTick


\* =========================================================== RetryManager
\* The largest RetryConfig.maxRetries a manager is built with (0..MaxRetriesCfg).
MaxRetriesCfg == 2
\* No operation is invoked more often than this (the model stops retrying there).
MaxInvoked == 4

\* The executeWithRetry calls, numbered in the order they are made.
Execs == {1, 2}
OpIds == {"op1", "op2"}
Revisions == {"RetryManager.ts", "part_007"}

\* text.toLowerCase() of the pieces of text the classifier looks for.
Lower(w) ==
  CASE w = "Network" -> "network"
    [] w = "Timeout" -> "timeout"
    [] w = "Unauthorized" -> "unauthorized"
    [] w = "Forbidden" -> "forbidden"
    [] OTHER -> w

\* A thrown value as the classifier sees it: `nullish` (!error), error.status,
\* `http` (the status /HTTP (\d+):/ finds in error.message, 0 when it finds none),
\* `words` (the pieces of error.message the classifier searches for, as written),
\* error.code.
Thrown(nullish, status, http, words, code) ==
  [nullish |-> nullish, status |-> status, http |-> http, words |-> words, code |-> code]

\* The failures an operation ends with, by what is thrown.
ErrorOf(name) ==
  CASE name = "Fail 1" -> Thrown(FALSE, 0, 0, {}, "")
    [] name = "Network error" -> Thrown(FALSE, 0, 0, {"Network"}, "")
    [] name = "Request timeout" -> Thrown(FALSE, 0, 0, {"timeout"}, "")
    [] name = "Rate limit exceeded by server" -> Thrown(FALSE, 0, 0, {}, "")
    [] name = "HTTP 500: Internal Server Error" -> Thrown(FALSE, 0, 500, {}, "")
    [] name = "HTTP 404: Not Found" -> Thrown(FALSE, 0, 404, {}, "")
    [] name = "HTTP 401: Unauthorized" -> Thrown(FALSE, 0, 401, {"401", "Unauthorized"}, "")
    [] name = "{status: 401}" -> Thrown(FALSE, 401, 0, {}, "")
    [] name = "Forbidden" -> Thrown(FALSE, 0, 0, {"Forbidden"}, "")
    [] name = "{code: NETWORK_ERROR}" -> Thrown(FALSE, 0, 0, {}, "NETWORK_ERROR")
    [] name = "Payload validation failed" -> Thrown(FALSE, 0, 0, {}, "")

ErrorNames ==
  {"Fail 1", "Network error", "Request timeout", "Rate limit exceeded by server",
   "HTTP 500: Internal Server Error", "HTTP 404: Not Found", "HTTP 401: Unauthorized",
   "{status: 401}", "Forbidden", "{code: NETWORK_ERROR}"}

\* error.message.includes(w)
Includes(err, w) == w \in err.words
\* error.message.toLowerCase().includes(w)
LowerIncludes(err, w) == \E x \in err.words : Lower(x) = w

\* RetryManager.shouldRetryError(error) of part_007.
shouldRetryError(err) ==
  IF err.nullish THEN FALSE
  ELSE IF err.status = 401 \/ err.status = 403 THEN FALSE
  ELSE IF err.http # 0
    THEN IF err.http = 401 \/ err.http = 403
           THEN FALSE
           ELSE err.http >= 500 \/ err.http = 429 \/ err.http = 408
  ELSE IF \/ Includes(err, "401") \/ Includes(err, "403")
          \/ LowerIncludes(err, "unauthorized") \/ LowerIncludes(err, "forbidden")
    THEN FALSE
  ELSE IF \/ err.code = "NETWORK_ERROR" \/ err.code = "TIMEOUT"
          \/ Includes(err, "network") \/ Includes(err, "timeout")
    THEN TRUE
  ELSE FALSE

\* The test of executeWithRetry's catch that ends the retries, in each source:
\* RetryManager.ts line 34 and part_007 line 34.
givesUp(rev, current, max, err) ==
  IF rev = "part_007"
    THEN current >= max \/ ~shouldRetryError(err)
    ELSE current >= max

\* this.retryCount.get(operationId) || 0
countOrZero(counts, id) == IF counts[id] = Absent THEN 0 ELSE counts[id]

\* this.retryCount.delete(operationId) deleting every entry of the map.
deleteCount_all(counts, id) == [i \in DOMAIN counts |-> Absent]

\* this.retryCount.delete(operationId)
deleteCount(counts, id) == [counts EXCEPT ![id] = Absent]

\* RetryManager.isRetrying(operationId) and getRetryCount(operationId).
isRetrying(counts, id) == counts[id] # Absent
getRetryCount(counts, id) == countOrZero(counts, id)

\* An executeWithRetry call: where it stands (pc), its operationId, the
\* currentRetryCount its running frame read, and its history: the number of times
\* the operation was invoked and the last failure.
NoExec == [pc |-> "idle", id |-> "", current |-> 0, invoked |-> 0, lastErr |-> ""]

RetryInit ==
  /\ retryRev \in Revisions
  /\ maxRetries \in 0..MaxRetriesCfg
  /\ retryCount = [i \in OpIds |-> Absent]
  /\ exec = [e \in Execs |-> NoExec]
  /\ retryCleared = {}

RetryIdle ==
  /\ retryRev = "part_007"
  /\ maxRetries = MaxRetriesCfg
  /\ retryCount = [i \in OpIds |-> Absent]
  /\ exec = [e \in Execs |-> NoExec]
  /\ retryCleared = {}

\* executeWithRetry(operation, id) is called: it reads the count and invokes the operation.
ExecuteWithRetry(e, id) ==
  /\ exec[e].pc = "idle"
  /\ \A d \in Execs : d < e => exec[d].pc # "idle"
  /\ exec' = [exec EXCEPT ![e] =
       [@ EXCEPT !.pc = "operation", !.id = id,
                 !.current = countOrZero(retryCount, id), !.invoked = 1]]
  /\ UNCHANGED <<now, retryRev, maxRetries, retryCount, retryCleared, notRetry>>

\* The awaited operation resolves: the count is deleted and the call resolves.
OperationResolves(e) ==
  /\ exec[e].pc = "operation"
  /\ retryCount' = deleteCount(retryCount, exec[e].id)
  /\ exec' = [exec EXCEPT ![e].pc = "resolved"]
  /\ UNCHANGED <<now, retryRev, maxRetries, retryCleared, notRetry>>

\* The awaited operation rejects with err: the catch gives up (deletes the count and
\* rethrows) or records one more retry and arms the delay timer.
OperationRejects(e, err) ==
  /\ exec[e].pc = "operation"
  /\ IF givesUp(retryRev, exec[e].current, maxRetries, ErrorOf(err))
       THEN /\ retryCount' = deleteCount(retryCount, exec[e].id)
            /\ exec' = [exec EXCEPT ![e] =
                 [@ EXCEPT !.pc = "rejected", !.lastErr = err]]
       ELSE /\ retryCount' = [retryCount EXCEPT ![exec[e].id] = exec[e].current + 1]
            /\ exec' = [exec EXCEPT ![e] =
                 [@ EXCEPT !.pc = "delay", !.lastErr = err]]
  /\ UNCHANGED <<now, retryRev, maxRetries, retryCleared, notRetry>>

\* The delay timer fires: executeWithRetry(operation, id) runs again, reads the count
\* and invokes the operation.
RetryTimerFires(e) ==
  /\ exec[e].pc = "delay"
  /\ exec[e].invoked < MaxInvoked
  /\ exec' = [exec EXCEPT ![e] =
       [@ EXCEPT !.pc = "operation",
                 !.current = countOrZero(retryCount, exec[e].id), !.invoked = @ + 1]]
  /\ UNCHANGED <<now, retryRev, maxRetries, retryCount, retryCleared, notRetry>>

\* clearRetryCount(id) is called.
ClearRetryCount(id) ==
  /\ retryCount[id] # Absent
  /\ retryCount' = deleteCount(retryCount, id)
  /\ retryCleared' = retryCleared \cup {id}
  /\ UNCHANGED <<now, retryRev, maxRetries, exec, notRetry>>

NextRetry ==
  \/ \E e \in Execs, id \in OpIds : ExecuteWithRetry(e, id)
  \/ \E e \in Execs : OperationResolves(e)
  \/ \E e \in Execs, err \in ErrorNames : OperationRejects(e, err)
  \/ \E e \in Execs : RetryTimerFires(e)
  \/ \E id \in OpIds : ClearRetryCount(id)


\* ========================================================= CircuitBreaker
\* CircuitBreakerConfig.failureThreshold.
failureThreshold == 2
\* CircuitBreakerConfig.timeout, in clock ticks.
cbTimeout == 2
\* The breaker takes no further call once its two counters and the calls in flight add up to this.
MaxCbCalls == 4

\* The execute() calls that can be in flight together.
CbCalls == {1, 2}

\* isCallAllowed letting a call through one tick before nextRetryTime.
isCallAllowed_early(b, t) ==
  CASE b.state = "CLOSED" -> [ret |-> TRUE, cb |-> b]
    [] b.state = "OPEN" ->
         IF ~IsFalsy(b.nextRetryTime) /\ t >= b.nextRetryTime - 1
           THEN [ret |-> TRUE, cb |-> [b EXCEPT !.state = "HALF_OPEN"]]
           ELSE [ret |-> FALSE, cb |-> b]
    [] b.state = "HALF_OPEN" -> [ret |-> TRUE, cb |-> b]
    [] OTHER -> [ret |-> FALSE, cb |-> b]

\* CircuitBreaker.isCallAllowed() at time t: the value returned and the breaker afterwards.
isCallAllowed(b, t) ==
  CASE b.state = "CLOSED" -> [ret |-> TRUE, cb |-> b]
    [] b.state = "OPEN" ->
         IF ~IsFalsy(b.nextRetryTime) /\ t >= b.nextRetryTime
           THEN [ret |-> TRUE, cb |-> [b EXCEPT !.state = "HALF_OPEN"]]
           ELSE [ret |-> FALSE, cb |-> b]
    [] b.state = "HALF_OPEN" -> [ret |-> TRUE, cb |-> b]
    [] OTHER -> [ret |-> FALSE, cb |-> b]

\* CircuitBreaker.reset()
reset(b) ==
  [state |-> "CLOSED", failureCount |-> 0, successCount |-> 0,
   lastFailureTime |-> Absent, nextRetryTime |-> Absent]

\* CircuitBreaker.tripCircuit() at time t.
tripCircuit(b, t) == [b EXCEPT !.state = "OPEN", !.nextRetryTime = t + cbTimeout]

\* onSuccess closing the breaker without clearing the counters.
onSuccess_noReset(b) ==
  LET counted == [b EXCEPT !.successCount = @ + 1] IN
  IF counted.state = "HALF_OPEN" THEN [counted EXCEPT !.state = "CLOSED"] ELSE counted

\* CircuitBreaker.onSuccess()
onSuccess(b) ==
  LET counted == [b EXCEPT !.successCount = @ + 1] IN
  IF counted.state = "HALF_OPEN" THEN reset(counted) ELSE counted

\* CircuitBreaker.onFailure() at time t.
onFailure(b, t) ==
  LET counted == [b EXCEPT !.failureCount = @ + 1, !.lastFailureTime = t] IN
  IF counted.state = "HALF_OPEN" THEN tripCircuit(counted, t)
  ELSE IF counted.failureCount >= failureThreshold THEN tripCircuit(counted, t)
  ELSE counted

\* CircuitBreaker.forceOpen() at time t.
forceOpen(b, t) == [b EXCEPT !.state = "OPEN", !.nextRetryTime = t + cbTimeout]

NoCbCall == [pc |-> "idle", admitted |-> ""]

\* What the most recent breaker operation was: its name, when it ran, the state it
\* found, the state the call it is about was admitted in, what it returned
\* (isCallAllowed's value; for execute, whether the call was let through) and whether
\* it invoked the wrapped operation.
CbDid(op, pre, admitted, ret, invoked) ==
  [op |-> op, time |-> now, pre |-> pre, admitted |-> admitted, ret |-> ret,
   invoked |-> invoked]

CBInit ==
  /\ cb = reset([state |-> "CLOSED"])
  /\ cbCall = [c \in CbCalls |-> NoCbCall]
  /\ cbLast = [op |-> "none", time |-> 0, pre |-> "", admitted |-> "", ret |-> FALSE,
               invoked |-> FALSE]
  /\ cbConsec = 0
  /\ cbTrippedAt = 0

InFlight == {c \in CbCalls : cbCall[c].pc = "inflight"}

\* execute(operation) is called: a refused call throws at once, an admitted one
\* invokes the operation and awaits it.
Execute(c) ==
  LET r == isCallAllowed(cb, now) IN
  /\ cbCall[c].pc = "idle"
  /\ cb.failureCount + cb.successCount + Cardinality(InFlight) < MaxCbCalls
  /\ cb' = r.cb
  /\ cbCall' = IF r.ret
                 THEN [cbCall EXCEPT ![c] = [pc |-> "inflight", admitted |-> r.cb.state]]
                 ELSE cbCall
  /\ cbLast' = CbDid("execute", cb.state, IF r.ret THEN r.cb.state ELSE "", r.ret, r.ret)
  /\ UNCHANGED <<now, cbConsec, cbTrippedAt, notCB>>

\* The awaited operation of call c resolves: onSuccess().
CbOperationSucceeds(c) ==
  /\ cbCall[c].pc = "inflight"
  /\ cb' = onSuccess(cb)
  /\ cbCall' = [cbCall EXCEPT ![c] = NoCbCall]
  /\ cbLast' = CbDid("onSuccess", cb.state, cbCall[c].admitted, TRUE, FALSE)
  /\ cbConsec' = 0
  /\ UNCHANGED <<now, cbTrippedAt, notCB>>

\* The awaited operation of call c rejects: onFailure(), and the error is rethrown.
CbOperationFails(c) ==
  /\ cbCall[c].pc = "inflight"
  /\ cb' = onFailure(cb, now)
  /\ cbCall' = [cbCall EXCEPT ![c] = NoCbCall]
  /\ cbLast' = CbDid("onFailure", cb.state, cbCall[c].admitted, FALSE, FALSE)
  /\ cbConsec' = cbConsec + 1
  /\ cbTrippedAt' = IF cbConsec + 1 >= failureThreshold THEN now ELSE cbTrippedAt
  /\ UNCHANGED <<now, notCB>>

\* isCallAllowed() is called on its own (isCircuitOpen() calls it too).
IsCallAllowed ==
  LET r == isCallAllowed(cb, now) IN
  /\ cb' = r.cb
  /\ cbLast' = CbDid("isCallAllowed", cb.state, "", r.ret, FALSE)
  /\ UNCHANGED <<now, cbCall, cbConsec, cbTrippedAt, notCB>>

\* forceOpen() is called.
ForceOpen ==
  /\ cb' = forceOpen(cb, now)
  /\ cbLast' = CbDid("forceOpen", cb.state, "", FALSE, FALSE)
  /\ UNCHANGED <<now, cbCall, cbConsec, cbTrippedAt, notCB>>

\* forceClose() or reset() is called.
ForceClose ==
  /\ cb' = reset(cb)
  /\ cbLast' = CbDid("reset", cb.state, "", FALSE, FALSE)
  /\ cbConsec' = 0
  /\ UNCHANGED <<now, cbCall, cbTrippedAt, notCB>>

CBTick == Tick /\ UNCHANGED <<cbVars, notCB>>

NextCB ==
  \/ \E c \in CbCalls : Execute(c)
  \/ \E c \in CbCalls : CbOperationSucceeds(c)
  \/ \E c \in CbCalls : CbOperationFails(c)
  \/ IsCallAllowed
  \/ ForceOpen
  \/ ForceClose
  \/ CBTick


\* ========================================= QuotaManager and OfflineManager
\* QuotaLimits.dailyLimit, monthlyLimit, burstLimit (0 stands for "no limit").
dailyLimit == 1
monthlyLimit == 2
burstLimit == 1
\* QuotaLimits.burstWindowMs, in clock ticks.
burstWindowMs == 2
\* The length of a day and of a month, in clock ticks.
DayMs == 5
MonthMs == 10
\* QuotaLimits.payloadSizeLimit and the estimated sizes reports come in.
payloadSizeLimit == 2
PayloadSizes == {1, 3}
\* OfflineManager.maxQueueSize and maxAge (in clock ticks).
maxQueueSize == 2
maxAge == 3
\* processQueue drops a report once it has failed this many times.
MaxAttempts == 3

getDayStartTimestamp(t) == t - (t % DayMs)
getMonthStartTimestamp(t) == t - (t % MonthMs)

\* QuotaManager.resetExpiredCounters() at time t.
resetExpiredCounters(u, t) ==
  LET d == IF u.lastResetDaily < getDayStartTimestamp(t)
             THEN [u EXCEPT !.dailyUsed = 0, !.lastResetDaily = getDayStartTimestamp(t)]
             ELSE u
      m == IF d.lastResetMonthly < getMonthStartTimestamp(t)
             THEN [d EXCEPT !.monthlyUsed = 0,
                            !.lastResetMonthly = getMonthStartTimestamp(t)]
             ELSE d
  IN IF t - m.lastResetBurst >= burstWindowMs
       THEN [m EXCEPT !.burstUsed = 0, !.lastResetBurst = t]
       ELSE m

\* A counter that is not a number (NaN, or a string read back from storage): it
\* compares false against every limit and stays what it is when incremented.
NotANumber == -1
Incremented(x) == IF x = NotANumber THEN NotANumber ELSE x + 1

\* canSendError testing the burst budget before the daily and the monthly one.
canSendError_burstFirst(u, payloadSize, t) ==
  LET r == resetExpiredCounters(u, t) IN
  [usage |-> r,
   reason |->
     IF payloadSize # 0 /\ payloadSize > payloadSizeLimit THEN "Payload size"
     ELSE IF r.burstUsed >= burstLimit THEN "Burst limit"
     ELSE IF r.dailyUsed >= dailyLimit THEN "Daily limit"
     ELSE IF r.monthlyUsed >= monthlyLimit THEN "Monthly limit"
     ELSE ""]

\* canSendError evaluating the counters as they stand, without rolling them over.
canSendError_stale(u, payloadSize, t) ==
  [usage |-> u,
   reason |->
     IF payloadSize # 0 /\ payloadSize > payloadSizeLimit THEN "Payload size"
     ELSE IF u.dailyUsed >= dailyLimit THEN "Daily limit"
     ELSE IF u.monthlyUsed >= monthlyLimit THEN "Monthly limit"
     ELSE IF u.burstUsed >= burstLimit THEN "Burst limit"
     ELSE ""]

\* QuotaManager.canSendError(payloadSize) at time t: the answer (the reason of the
\* denial, "" when allowed) and the usage afterwards.  A payloadSize or a limit of 0
\* is falsy and skips its test.
canSendError(u, payloadSize, t) ==
  LET r == resetExpiredCounters(u, t) IN
  [usage |-> r,
   reason |->
     IF payloadSize # 0 /\ payloadSizeLimit # 0 /\ payloadSize > payloadSizeLimit
       THEN "Payload size"
     ELSE IF dailyLimit # 0 /\ r.dailyUsed >= dailyLimit THEN "Daily limit"
     ELSE IF monthlyLimit # 0 /\ r.monthlyUsed >= monthlyLimit THEN "Monthly limit"
     ELSE IF burstLimit # 0 /\ r.burstUsed >= burstLimit THEN "Burst limit"
     ELSE ""]

\* QuotaManager.recordErrorSent() at time t.
recordErrorSent(u, t) ==
  LET r == resetExpiredCounters(u, t) IN
  [r EXCEPT !.dailyUsed = Incremented(@), !.monthlyUsed = Incremented(@),
            !.burstUsed = Incremented(@)]

\* The usage record a QuotaManager built at time t over empty storage starts from.
FreshUsage(t) ==
  resetExpiredCounters(
    [dailyUsed |-> 0, monthlyUsed |-> 0, burstUsed |-> 0,
     lastResetDaily |-> t, lastResetMonthly |-> t, lastResetBurst |-> t], t)

\* OfflineManager.cleanupOldReports() at time t.
RECURSIVE cleanupOldReports(_, _)
cleanupOldReports(q, t) ==
  IF q = <<>> THEN <<>>
  ELSE IF t - Head(q).timestamp < maxAge
         THEN <<Head(q)>> \o cleanupOldReports(Tail(q), t)
         ELSE cleanupOldReports(Tail(q), t)

\* OfflineManager.queueReport(report) that never evicts.
queueReport_noEvict(q, report, t) ==
  Append(cleanupOldReports(q, t), [report |-> report, timestamp |-> t, attempts |-> 0])

\* OfflineManager.queueReport(report) at time t.
queueReport(q, report, t) ==
  LET cleaned == cleanupOldReports(q, t)
      room == IF Len(cleaned) >= maxQueueSize THEN Tail(cleaned) ELSE cleaned
  IN Append(room, [report |-> report, timestamp |-> t, attempts |-> 0])

\* processQueue's catch putting the report back whatever its attempts count.
requeueFailed_always(q, item) == Append(q, [item EXCEPT !.attempts = @ + 1])

\* processQueue's catch for one report whose send failed: the queue afterwards.
requeueFailed(q, item) ==
  LET failed == [item EXCEPT !.attempts = @ + 1] IN
  IF failed.attempts < MaxAttempts THEN Append(q, failed) ELSE q

\* processQueue() leaving the reports it takes in the queue.
processQueue_keepsQueue(q, online) ==
  IF ~online \/ q = <<>> THEN [toProcess |-> <<>>, queue |-> q]
  ELSE [toProcess |-> q, queue |-> q]

\* processQueue() begins: nothing to do when offline or empty, else the queue is
\* copied to toProcess and emptied.
processQueue(q, online) ==
  IF ~online \/ q = <<>> THEN [toProcess |-> <<>>, queue |-> q]
  ELSE [toProcess |-> q, queue |-> <<>>]

\* What queueReport(report) at time t does to a queue q besides purging: it evicts
\* the head ("evicted") or only appends ("queued").
QueuedOp(q, t) ==
  IF Len(cleanupOldReports(q, t)) >= maxQueueSize THEN "evicted" ELSE "queued"

\* OfflineManager.persistQueue(): what localStorage holds once the write succeeded.
persistQueue(q) == q

\* OfflineManager.clearQueue()
clearQueue(q) == <<>>

\* A report: its identity (the reports are numbered as they are made; 0 is no
\* report) and whether the payload sendReportDirectly builds from it fits
\* SecurityConfig.maxPayloadSize.
Report(id, fits) == [id |-> id, fits |-> fits]
NoReport == Report(0, TRUE)

\* SecurityValidator.validatePayloadSize accepting every payload.
validatePayloadSize_none(report) == TRUE

\* SecurityValidator.validatePayloadSize(payloadString).isValid for the payload of report.
validatePayloadSize(report) == report.fits

\* sendReportDirectly(report) up to its first await: the POST is in flight
\* ("fetching"), or size validation threw before any fetch ("invalid").
sendReportDirectly(report) ==
  IF validatePayloadSize(report) THEN "fetching" ELSE "invalid"

\* What the OfflineManager did last: the operation ("queued", "evicted", "processQueue",
\* "sent", "requeued", "discarded", "cleared") and the report and attempts count it was about.
OmDid(op, id, attempts) == [op |-> op, id |-> id, attempts |-> attempts]

\* SDKMonitor.recordErrorDropped and recordErrorReported.
recordErrorDropped(m) == [m EXCEPT !.errorsDropped = @ + 1]
recordErrorReported(m) == [m EXCEPT !.errorsReported = @ + 1]


\* ========================================================== ErrorReporter
\* The reportError calls that can be in flight together; as many calls are made in all.
ErCalls == {"r1", "r2"}
\* Last instant of the clock while the reporter is observed.
ErMaxTime == 3
\* RetryConfig.maxRetries of the reporter's RetryManager.
ErMaxRetries == 1
\* The processQueue runs: one per reportError call, the one the 'online' event
\* starts, and the one flushQueue() (or any direct caller) starts.
Drainers == ErCalls \cup {"online", "flush"}
\* What a failing fetch throws in sendReportDirectly.
SendErrors ==
  {"Request timeout", "Network error", "HTTP 500: Internal Server Error",
   "HTTP 401: Unauthorized"}
\* What sendReportDirectly throws when size validation fails.
ValidationError == "Payload validation failed"

NoErCall == [pc |-> "idle", report |-> NoReport, current |-> 0, outcome |-> ""]

\* How a reportError promise settled ("resolved" or "rejected"), and what had
\* become of the report: dropped by a gate ("rate_limit", "quota"), "sent", "queued",
\* or "failed" (the send failed for good and the report was dropped).
ErSettled(c, settled, outcome) == [call |-> c, settled |-> settled, outcome |-> outcome]

\* sendReport's catch: with offline support the report is queued, without it the
\* error is rethrown.
sendReportCatch(offline, q, report, t) ==
  IF offline THEN [thrown |-> FALSE, queue |-> queueReport(q, report, t)]
  ELSE [thrown |-> TRUE, queue |-> q]

\* reportError's catch rethrowing what it caught.
reportErrorCatch_rethrow(m) ==
  [settled |-> "rejected", metrics |-> recordErrorDropped(m)]

\* reportError's catch: the drop is counted and the promise resolves.
reportErrorCatch(m) ==
  [settled |-> "resolved", metrics |-> recordErrorDropped(m)]

\* The OfflineManager of a fresh page over empty storage.
OMInit ==
  /\ queue = <<>>
  /\ stored = <<>>
  /\ omLast = OmDid("", 0, 0)
  /\ drain = [d \in Drainers |-> <<>>]

ERInit ==
  /\ enableOfflineSupport \in BOOLEAN
  /\ isOnline = TRUE
  /\ OMInit
  /\ usage = FreshUsage(1)
  /\ metrics = [errorsReported |-> 0, errorsDropped |-> 0]
  /\ erCall = [c \in ErCalls |-> NoErCall]
  /\ erLast = ErSettled("", "", "")
  /\ erStarted = 0
  /\ erGated = {}
  /\ erPosts = <<>>
  /\ erDelivered = {}

ERIdle ==
  /\ enableOfflineSupport = FALSE
  /\ isOnline = TRUE
  /\ OMInit
  /\ usage = FreshUsage(1)
  /\ metrics = [errorsReported |-> 0, errorsDropped |-> 0]
  /\ erCall = [c \in ErCalls |-> NoErCall]
  /\ erLast = ErSettled("", "", "")
  /\ erStarted = 0
  /\ erGated = {}
  /\ erPosts = <<>>
  /\ erDelivered = {}

\* The POSTs made so far, per report, once sendReportDirectly(report) has been
\* invoked: it calls fetch only for a payload that passed size validation.
Fetches(posts, report) ==
  IF validatePayloadSize(report) THEN [posts EXCEPT ![report.id] = @ + 1] ELSE posts

\* The same once processQueue has gone on to the head of what is left to process.
FetchesNext(posts, rest) ==
  IF rest = <<>> THEN posts ELSE Fetches(posts, Head(rest).report)

\* localStorage once processQueue has handled a report: the queue is persisted only
\* when nothing is left to process.
PersistAtEnd(rest, q, old) == IF rest = <<>> THEN persistQueue(q) ELSE old

\* A report that passed the rate-limit gate and the quota gate, and whether
\* sendReport found the browser offline (with offline support) when it took it.
Gated(report, offline) == [report |-> report, offline |-> offline]

\* reportError(error) is called with an error of fingerprint fp, a report of the
\* given estimated size whose payload fits or not: everything up to the first await.
\* At most limit calls are made in all.
ReportErrorOf(limit, c, fp, size, fits) ==
  LET mr == canMakeRequest(requests, "default", now, maxRequests)
      re == canReportError(recentErrors, fp, now)
      qc == canSendError(usage, size, now)
      offline == enableOfflineSupport /\ ~isOnline
      report == Report(erStarted + 1, fits)
  IN
  /\ erCall[c].pc = "idle"
  /\ \A other \in ErCalls : erCall[other].pc = "idle" => c \in {other, "r1"}
  /\ erStarted < limit
  /\ erStarted' = erStarted + 1
  /\ requests' = mr.requests
  /\ recentErrors' = re.recentErrors
  /\ rlAccepted' = Logged(rlAccepted, "default", now, mr.ret)
  /\ rlReported' = Logged(rlReported, fp, now, re.ret)
  /\ rlLast' = [op |-> "canReportError", arg |-> fp, time |-> now, ret |-> re.ret]
  /\ IF ~mr.ret \/ ~re.ret
       THEN /\ metrics' = recordErrorDropped(metrics)
            /\ erLast' = ErSettled(c, "resolved", "rate_limit")
            /\ erPosts' = Append(erPosts, 0)
            /\ UNCHANGED <<erCall, usage, queue, stored, omLast, erGated>>
       ELSE /\ usage' = qc.usage
            /\ IF qc.reason # ""
                 THEN /\ metrics' = recordErrorDropped(metrics)
                      /\ erLast' = ErSettled(c, "resolved", "quota")
                      /\ erPosts' = Append(erPosts, 0)
                      /\ UNCHANGED <<erCall, queue, stored, omLast, erGated>>
                 ELSE /\ UNCHANGED <<metrics, erLast>>
                      /\ erGated' = erGated \cup {Gated(report, offline)}
                      /\ IF offline
                           THEN /\ queue' = queueReport(queue, report, now)
                                /\ stored' = persistQueue(queue')
                                /\ omLast' = OmDid(QueuedOp(queue, now), report.id, 0)
                                /\ erPosts' = Append(erPosts, 0)
                                /\ erCall' = [erCall EXCEPT ![c] =
                                     [pc |-> "afterSend", report |-> report,
                                      current |-> 0, outcome |-> "queued"]]
                           ELSE /\ UNCHANGED <<queue, stored, omLast>>
                                /\ erPosts' = Fetches(Append(erPosts, 0), report)
                                /\ erCall' = [erCall EXCEPT ![c] =
                                     [pc |-> sendReportDirectly(report), report |-> report,
                                      current |-> 0, outcome |-> ""]]
  /\ UNCHANGED <<now, maxRequests, enableOfflineSupport, isOnline, drain, erDelivered, notER>>

\* reportError(error), called as often as it may be in flight.
ReportError(c, fp, size, fits) ==
  ReportErrorOf(Cardinality(ErCalls), c, fp, size, fits)

\* reportError(error), called once more than the rate limit admits in a window.
ReportErrorBurst(c, fp, size) ==
  ReportErrorOf(MaxRequestsCfg + 1, c, fp, size, TRUE)

\* The fetch of call c answers 2xx: executeWithRetry returns, and with offline
\* support sendReport goes on to processQueue().
FetchResolves(c) ==
  LET pq == IF enableOfflineSupport THEN processQueue(queue, isOnline)
            ELSE [toProcess |-> <<>>, queue |-> queue]
  IN
  /\ erCall[c].pc = "fetching"
  /\ queue' = pq.queue
  /\ drain' = [drain EXCEPT ![c] = pq.toProcess]
  /\ omLast' = IF pq.toProcess = <<>> THEN omLast
               ELSE OmDid("processQueue", 0, 0)
  /\ erPosts' = FetchesNext(erPosts, pq.toProcess)
  /\ erDelivered' = erDelivered \cup {erCall[c].report.id}
  /\ erCall' = [erCall EXCEPT ![c] =
       [@ EXCEPT !.pc = IF pq.toProcess = <<>> THEN "afterSend" ELSE "draining",
                 !.outcome = "sent"]]
  /\ UNCHANGED <<now, rlVars, enableOfflineSupport, isOnline, stored, usage, metrics,
                 erLast, erStarted, erGated, notER>>

\* sendReportDirectly of call c throws err: executeWithRetry arms a retry or gives up,
\* and then sendReport's catch queues the report or rethrows into reportError's catch.
SendThrows(c, err) ==
  LET sc == sendReportCatch(enableOfflineSupport, queue, erCall[c].report, now)
      rc == reportErrorCatch(metrics)
  IN
  /\ IF ~givesUp(retryRev, erCall[c].current, maxRetries, ErrorOf(err))
       THEN /\ erCall' = [erCall EXCEPT ![c] =
                 [@ EXCEPT !.pc = "retryWait", !.current = @ + 1]]
            /\ UNCHANGED <<queue, stored, omLast, metrics, erLast>>
       ELSE IF sc.thrown
         THEN /\ erCall' = [erCall EXCEPT ![c] = NoErCall]
              /\ erLast' = ErSettled(c, rc.settled, "failed")
              /\ metrics' = rc.metrics
              /\ UNCHANGED <<queue, stored, omLast>>
         ELSE /\ erCall' = [erCall EXCEPT ![c] =
                   [@ EXCEPT !.pc = "afterSend", !.outcome = "queued"]]
              /\ queue' = sc.queue
              /\ stored' = persistQueue(queue')
              /\ omLast' = OmDid(QueuedOp(queue, now), erCall[c].report.id, 0)
              /\ UNCHANGED <<metrics, erLast>>
  /\ UNCHANGED <<now, rlVars, enableOfflineSupport, isOnline, usage, drain, erStarted,
                 erGated, erPosts, erDelivered, notER>>

\* The fetch of call c fails with err.
FetchRejects(c, err) ==
  /\ erCall[c].pc = "fetching"
  /\ SendThrows(c, err)

\* Size validation of the payload of call c has failed: sendReportDirectly throws
\* before any fetch.
ValidationFails(c) ==
  /\ erCall[c].pc = "invalid"
  /\ SendThrows(c, ValidationError)

\* The retry delay of call c is over: sendReportDirectly is invoked again.
SendRetryTimerFires(c) ==
  /\ erCall[c].pc = "retryWait"
  /\ erCall' = [erCall EXCEPT ![c].pc = sendReportDirectly(erCall[c].report)]
  /\ erPosts' = Fetches(erPosts, erCall[c].report)
  /\ UNCHANGED <<now, rlVars, enableOfflineSupport, isOnline, queue, stored, omLast, usage,
                 metrics, erLast, drain, erStarted, erGated, erDelivered, notER>>

\* The call that awaits processQueue run d goes on once nothing is left to send.
AfterDrain(d, rest) ==
  IF d \in ErCalls /\ rest = <<>>
    THEN [erCall EXCEPT ![d].pc = "afterSend"]
    ELSE erCall

\* processQueue run d: the send of the report at the head of toProcess succeeds.
DrainSendResolves(d) ==
  LET item == Head(drain[d])
      rest == Tail(drain[d])
  IN
  /\ drain[d] # <<>>
  /\ validatePayloadSize(item.report)
  /\ drain' = [drain EXCEPT ![d] = rest]
  /\ stored' = PersistAtEnd(rest, queue, stored)
  /\ omLast' = OmDid("sent", item.report.id, item.attempts)
  /\ erPosts' = FetchesNext(erPosts, rest)
  /\ erDelivered' = erDelivered \cup {item.report.id}
  /\ erCall' = AfterDrain(d, rest)
  /\ UNCHANGED <<now, rlVars, enableOfflineSupport, isOnline, queue, usage, metrics,
                 erLast, erStarted, erGated, notER>>

\* processQueue run d: the send of the report at the head of toProcess fails, and the
\* report is put back unless it has failed too often.
DrainSendRejects(d) ==
  LET item == Head(drain[d])
      rest == Tail(drain[d])
  IN
  /\ drain[d] # <<>>
  /\ queue' = requeueFailed(queue, item)
  /\ drain' = [drain EXCEPT ![d] = rest]
  /\ stored' = PersistAtEnd(rest, queue', stored)
  /\ omLast' = OmDid(IF queue' = queue THEN "discarded" ELSE "requeued",
                     item.report.id, item.attempts + 1)
  /\ erPosts' = FetchesNext(erPosts, rest)
  /\ erCall' = AfterDrain(d, rest)
  /\ UNCHANGED <<now, rlVars, enableOfflineSupport, isOnline, usage, metrics, erLast,
                 erStarted, erGated, erDelivered, notER>>

\* `await this.sendReport(report)` has returned: the quota and the monitor are
\* updated and the promise resolves.
AfterSend(c) ==
  /\ erCall[c].pc = "afterSend"
  /\ usage' = recordErrorSent(usage, now)
  /\ metrics' = recordErrorReported(metrics)
  /\ erCall' = [erCall EXCEPT ![c] = NoErCall]
  /\ erLast' = ErSettled(c, "resolved", erCall[c].outcome)
  /\ UNCHANGED <<now, rlVars, enableOfflineSupport, isOnline, queue, stored, omLast, drain,
                 erStarted, erGated, erPosts, erDelivered, notER>>

\* The window's 'offline' event.
GoOffline ==
  /\ isOnline
  /\ isOnline' = FALSE
  /\ UNCHANGED <<now, rlVars, enableOfflineSupport, queue, stored, omLast, usage, metrics,
                 erCall, erLast, drain, erStarted, erGated, erPosts, erDelivered, notER>>

\* processQueue() is started as run d.
StartProcessQueue(d, online) ==
  LET pq == processQueue(queue, online) IN
  /\ drain[d] = <<>>
  /\ queue' = pq.queue
  /\ drain' = [drain EXCEPT ![d] = pq.toProcess]
  /\ omLast' = IF pq.toProcess = <<>> THEN omLast
               ELSE OmDid("processQueue", 0, 0)
  /\ erPosts' = FetchesNext(erPosts, pq.toProcess)

\* The window's 'online' event: isOnline is set and processQueue() is started.
GoOnline ==
  /\ ~isOnline
  /\ isOnline' = TRUE
  /\ StartProcessQueue("online", TRUE)
  /\ UNCHANGED <<now, rlVars, enableOfflineSupport, stored, usage, metrics, erCall, erLast,
                 erStarted, erGated, erDelivered, notER>>

\* The clock advances while the reporter is observed.
ERTick == now < ErMaxTime /\ RLTick

\* The reportError pipeline.  The reporter's periodic RateLimiter.cleanup() is left to
\* SpecRL and SpecDedup: it removes only entries canMakeRequest and canReportError
\* already treat as expired.
NextER ==
  \/ \E c \in ErCalls, fp \in Fingerprints, size \in PayloadSizes, fits \in BOOLEAN :
       ReportError(c, fp, size, fits)
  \/ \E c \in ErCalls : FetchResolves(c)
  \/ \E c \in ErCalls, err \in SendErrors : FetchRejects(c, err)
  \/ \E c \in ErCalls : ValidationFails(c)
  \/ \E c \in ErCalls : SendRetryTimerFires(c)
  \/ \E d \in Drainers : DrainSendResolves(d)
  \/ \E d \in Drainers : DrainSendRejects(d)
  \/ \E c \in ErCalls : AfterSend(c)
  \/ GoOffline
  \/ GoOnline
  \/ ERTick


\* ========================================================= OfflineManager
\* The reports handed to the OfflineManager while it is observed on its own.
MaxQueued == 3

\* What localStorage['errorReporter_queue'] may hold when the page loads: nothing, or
\* one report an earlier page queued at time 0.
PersistedQueues ==
  {<<>>, <<[report |-> Report(1, TRUE), timestamp |-> 0, attempts |-> 0]>>}

\* OfflineManager.loadPersistedQueue() at time t: the stored queue is parsed and the
\* aged entries are purged.
loadPersistedQueue(s, t) == cleanupOldReports(s, t)

\* An OfflineManager constructed over what an earlier page persisted.
OfflineInit ==
  /\ enableOfflineSupport = TRUE
  /\ isOnline = TRUE
  /\ stored \in PersistedQueues
  /\ queue = loadPersistedQueue(stored, 1)
  /\ omLast = OmDid("", 0, 0)
  /\ drain = [d \in Drainers |-> <<>>]
  /\ usage = FreshUsage(1)
  /\ metrics = [errorsReported |-> 0, errorsDropped |-> 0]
  /\ erCall = [c \in ErCalls |-> NoErCall]
  /\ erLast = ErSettled("", "", "")
  /\ erStarted = Len(stored)
  /\ erGated = {}
  /\ erPosts = [i \in 1..Len(stored) |-> 0]
  /\ erDelivered = {}

\* offlineManager.queueReport(report) is called with a new report.
QueueReport ==
  LET report == Report(erStarted + 1, TRUE) IN
  /\ erStarted < MaxQueued
  /\ erStarted' = erStarted + 1
  /\ queue' = queueReport(queue, report, now)
  /\ stored' = persistQueue(queue')
  /\ omLast' = OmDid(QueuedOp(queue, now), report.id, 0)
  /\ erPosts' = Append(erPosts, 0)
  /\ UNCHANGED <<now, rlVars, enableOfflineSupport, isOnline, usage, metrics, erCall,
                 erLast, drain, erGated, erDelivered, notER>>

\* ErrorReporter.flushQueue(): with offline support, processQueue() is started (and
\* returns at once when offline or when the queue is empty).
FlushQueue ==
  /\ enableOfflineSupport
  /\ processQueue(queue, isOnline).toProcess # <<>>
  /\ StartProcessQueue("flush", isOnline)
  /\ UNCHANGED <<now, rlVars, enableOfflineSupport, isOnline, stored, usage, metrics,
                 erCall, erLast, erStarted, erGated, erDelivered, notER>>

\* ErrorReporter.destroy(): with offline support the queue is cleared, in memory and
\* in localStorage.
Destroy ==
  /\ enableOfflineSupport
  /\ queue' = clearQueue(queue)
  /\ stored' = persistQueue(queue')
  /\ omLast' = OmDid("cleared", 0, 0)
  /\ UNCHANGED <<now, rlVars, enableOfflineSupport, isOnline, usage, metrics, erCall,
                 erLast, drain, erStarted, erGated, erPosts, erDelivered, notER>>

\* Last instant of the clock while the OfflineManager is observed.
OmMaxTime == 4

\* The clock advances while the OfflineManager is observed.
OmTick == now < OmMaxTime /\ RLTick

\* The OfflineManager under its callers and the window's events.
NextOffline ==
  \/ QueueReport
  \/ FlushQueue
  \/ \E d \in Drainers : DrainSendResolves(d)
  \/ \E d \in Drainers : DrainSendRejects(d)
  \/ GoOffline
  \/ GoOnline
  \/ Destroy
  \/ OmTick


(***************************************************************************)
(* QuotaManager on its own: construction over the persisted usage record, *)
(* the quota query, the usage count and the passage of time.              *)
(***************************************************************************)

MaxSent == 3       \* recordErrorSent calls observed

\* What localStorage.getItem('errorReporter_quota') gives to the constructor.
QuotaStored(kind, u) == [kind |-> kind, usage |-> u]

ZeroUsage(t) ==
  [dailyUsed |-> 0, monthlyUsed |-> 0, burstUsed |-> 0,
   lastResetDaily |-> t, lastResetMonthly |-> t, lastResetBurst |-> t]

\* "missing": getItem returns null; "throws": getItem throws; "invalid json":
\* JSON.parse throws; "null": the text `null`, whose property read throws;
\* "record": a JSON object, here with every field present.
Unreadable == {"missing", "throws", "invalid json", "null"}

\* A record this program wrote (one report counted at time 1), and records some
\* other writer left: the empty object, and one whose dailyUsed is the string "abc".
WrittenUsage == [ZeroUsage(1) EXCEPT !.dailyUsed = 1, !.monthlyUsed = 1, !.burstUsed = 1]
MistypedUsage == [ZeroUsage(1) EXCEPT !.dailyUsed = NotANumber]
PersistedUsage ==
  {QuotaStored(k, ZeroUsage(0)) : k \in Unreadable \cup {"empty object"}}
    \cup {QuotaStored("record", WrittenUsage), QuotaStored("record", MistypedUsage)}

\* Whether the try block of loadUsageFromStorage raises.
loadRaises(st) == st.kind \in {"throws", "invalid json", "null"}

\* Whether loadUsageFromStorage lets an exception out: the try block covers the
\* read and the parse, and the catch only warns.
loadThrows(st) == loadRaises(st) /\ FALSE

\* `x || 0` on a counter: 0 for a missing or zero field, x otherwise (a non-empty
\* string is truthy and is kept).
OrZero(x) == IF x = 0 THEN 0 ELSE x

\* QuotaManager.loadUsageFromStorage at time t.  The reset stamps of a record are
\* epoch milliseconds, never the falsy 0 a missing field would be; the model's
\* time 0 is such a stamp.
loadUsageFromStorage(st, t) ==
  IF st.kind = "record"
    THEN [st.usage EXCEPT !.dailyUsed = OrZero(@), !.monthlyUsed = OrZero(@),
                          !.burstUsed = OrZero(@)]
    ELSE ZeroUsage(t)

\* new QuotaManager() at time t: load, then roll expired counters over.
constructQuota(st, t) == resetExpiredCounters(loadUsageFromStorage(st, t), t)

\* QuotaManager.resetUsage at time t.
resetUsage(t) == ZeroUsage(t)

QuotaDid(op, size, reason, threw) ==
  [op |-> op, size |-> size, reason |-> reason, threw |-> threw]

SentLog(st) ==
  [t \in Times |-> IF st = QuotaStored("record", WrittenUsage) /\ t = 1 THEN 1 ELSE 0]

\* The ErrorReporter's variables other than the usage record, at rest.
ERQuiet ==
  /\ enableOfflineSupport = FALSE
  /\ isOnline = TRUE
  /\ OMInit
  /\ metrics = [errorsReported |-> 0, errorsDropped |-> 0]
  /\ erCall = [c \in ErCalls |-> NoErCall]
  /\ erLast = ErSettled("", "", "")
  /\ erStarted = 0
  /\ erGated = {}
  /\ erPosts = <<>>
  /\ erDelivered = {}

QuotaInit ==
  /\ quotaStorage \in PersistedUsage
  /\ usage = constructQuota(quotaStorage, 1)
  /\ quotaLast = QuotaDid("constructor", 0, "", loadThrows(quotaStorage))
  /\ quotaSent = SentLog(quotaStorage)
  /\ ERQuiet

QuotaIdle ==
  /\ quotaStorage = QuotaStored("missing", ZeroUsage(0))
  /\ quotaLast = QuotaDid("", 0, "", FALSE)
  /\ quotaSent = [t \in Times |-> 0]

notQuota ==
  <<rlVars, retryVars, cbVars, configVars, sanitizeVars, batchVars, breadcrumbVars, fingerprintVars,
    enableOfflineSupport, isOnline, queue, stored, omLast,
    metrics, erCall, erLast, drain, erStarted, erGated, erPosts, erDelivered, monitorVars, twinVars>>

\* canSendError(payloadSize): payloadSize 0 stands for a call without argument.
CanSendError(payloadSize) ==
  LET res == canSendError(usage, payloadSize, now) IN
  /\ usage' = res.usage
  /\ quotaLast' = QuotaDid("canSendError", payloadSize, res.reason, FALSE)
  /\ UNCHANGED <<now, quotaStorage, quotaSent, notQuota>>

\* recordErrorSent(): the write to storage succeeds or throws inside
\* saveUsageToStorage, whose catch only warns.
RecordErrorSent(writeOk) ==
  /\ SumOver(quotaSent, Times) < MaxSent
  /\ usage' = recordErrorSent(usage, now)
  /\ quotaStorage' = IF writeOk THEN QuotaStored("record", usage') ELSE quotaStorage
  /\ quotaSent' = [quotaSent EXCEPT ![now] = @ + 1]
  /\ quotaLast' = QuotaDid("recordErrorSent", 0, "", FALSE)
  /\ UNCHANGED <<now, notQuota>>

\* resetUsage(): zeroes the record and saves it.
ResetUsage(writeOk) ==
  /\ usage' = resetUsage(now)
  /\ quotaStorage' = IF writeOk THEN QuotaStored("record", usage') ELSE quotaStorage
  /\ quotaLast' = QuotaDid("resetUsage", 0, "", FALSE)
  /\ UNCHANGED <<now, quotaSent, notQuota>>

\* The page is loaded again: a new QuotaManager over what storage holds.
Reconstruct ==
  /\ usage' = constructQuota(quotaStorage, now)
  /\ quotaLast' = QuotaDid("constructor", 0, "", loadThrows(quotaStorage))
  /\ UNCHANGED <<now, quotaStorage, quotaSent, notQuota>>

QuotaTick == Tick /\ UNCHANGED <<usage, quotaVars, notQuota>>

NextQuota ==
  \/ \E size \in {0} \cup PayloadSizes : CanSendError(size)
  \/ \E writeOk \in BOOLEAN : RecordErrorSent(writeOk)
  \/ \E writeOk \in BOOLEAN : ResetUsage(writeOk)
  \/ Reconstruct
  \/ QuotaTick

(***************************************************************************)
(* ErrorReporter configuration: the constructor's validation, updateConfig *)
(* and the guard of reportError.                                           *)
(***************************************************************************)

\* Destination URLs: the empty string and a text `new URL` rejects, a plain-http
\* URL, an https URL on localhost, an https URL on a public host.
Urls == {"", "not-a-url", "http://api.example.com", "https://localhost/api",
         "https://api.example.com"}
\* Project tokens: empty, a dummy, one shorter than 8, one containing the dummy
\* "token", one matching /secret/i, and an unremarkable one.
Tokens == {"", "test", "a1b2c3", "my-token-9f8e7d6c", "secret-9f8e7d6c", "a1b2c3d4e5f6"}

\* SecurityValidator.validateApiUrl: requireHttps is `environment === 'production'`
\* at construction, production is isProductionEnvironment().
validateApiUrl(url, requireHttps, production) ==
  /\ url \notin {"", "not-a-url"}                                  \* new URL(url) parses
  /\ requireHttps => url \notin {"http://api.example.com"}         \* protocol is https:
  /\ ~(production /\ url = "https://localhost/api")                \* isSuspiciousUrl

\* SecurityValidator.validateProjectToken with validateToken: true.
validateProjectToken(token) ==
  /\ token # ""                                                    \* !token
  /\ token \notin {"test", "a1b2c3"}                               \* length < 8
  /\ token \notin {"test"}                                         \* dummyTokens.includes
  /\ token \notin {"test", "my-token-9f8e7d6c"}                    \* contains a dummy
  /\ token \notin {"test", "secret-9f8e7d6c"}                      \* containsSuspiciousPatterns

\* ErrorReporter.validateConfiguration: whether it throws.
validateConfiguration(cfg, env) ==
  ~(validateApiUrl(cfg.apiUrl, env.requireHttps, env.production)
      /\ validateProjectToken(cfg.projectToken))

NoReporter ==
  [exists |-> FALSE, enabled |-> FALSE, apiUrl |-> "", projectToken |-> "",
   isInitialized |-> FALSE]

\* A partial configuration: `has` is the set of keys the object carries, a key it
\* does not carry has its field at a fixed value that is never read.
Updates ==
  {u \in [has : SUBSET {"enabled", "apiUrl", "projectToken"}, enabled : BOOLEAN,
          apiUrl : Urls, projectToken : Tokens] :
     /\ "enabled" \notin u.has => u.enabled = FALSE
     /\ "apiUrl" \notin u.has => u.apiUrl = ""
     /\ "projectToken" \notin u.has => u.projectToken = ""}

\* { ...config, ...updates }
Merged(cfg, u) ==
  [cfg EXCEPT !.enabled = IF "enabled" \in u.has THEN u.enabled ELSE @,
              !.apiUrl = IF "apiUrl" \in u.has THEN u.apiUrl ELSE @,
              !.projectToken = IF "projectToken" \in u.has THEN u.projectToken ELSE @]

\* `updates.apiUrl || updates.projectToken`: an absent key and the empty string
\* are both falsy.
Revalidates(u) ==
  \/ "apiUrl" \in u.has /\ u.apiUrl # ""
  \/ "projectToken" \in u.has /\ u.projectToken # ""

CfgDid(op, u, threw) == [op |-> op, updates |-> u, threw |-> threw]

NoUpdates == [has |-> {}, enabled |-> FALSE, apiUrl |-> "", projectToken |-> ""]

ConfigIdle ==
  /\ reporter = NoReporter
  /\ secEnv = [requireHttps |-> TRUE, production |-> TRUE]
  /\ cfgLast = CfgDid("", NoUpdates, FALSE)

ConfigInit ==
  /\ reporter = NoReporter
  /\ secEnv \in [requireHttps : BOOLEAN, production : BOOLEAN]
  /\ cfgLast = CfgDid("", NoUpdates, FALSE)

notConfig ==
  <<now, rlVars, retryVars, cbVars, erVars, quotaVars, sanitizeVars, batchVars, breadcrumbVars, fingerprintVars, monitorVars, twinVars>>

\* new ErrorReporter(config): apiUrl and projectToken are required keys, enabled
\* defaults to true.  initialize() returns at once when the reporter is disabled;
\* otherwise a failed validation throws out of the constructor and no object
\* results.
Construct(u) ==
  /\ ~reporter.exists
  /\ {"apiUrl", "projectToken"} \subseteq u.has
  /\ LET cfg == Merged([NoReporter EXCEPT !.enabled = TRUE], u)
         threw == cfg.enabled /\ validateConfiguration(cfg, secEnv)
     IN /\ reporter' = IF threw THEN NoReporter
                       ELSE [cfg EXCEPT !.exists = TRUE, !.isInitialized = cfg.enabled]
        /\ cfgLast' = CfgDid("constructor", u, threw)
  /\ UNCHANGED <<secEnv, notConfig>>

\* updateConfig(updates): the merge is assigned first, the validation that may
\* throw comes after it.
UpdateConfig(u) ==
  /\ reporter.exists
  /\ reporter' = Merged(reporter, u)
  /\ cfgLast' = CfgDid("updateConfig", u,
                       Revalidates(u) /\ validateConfiguration(reporter', secEnv))
  /\ UNCHANGED <<secEnv, notConfig>>

\* reportError past its guard: the report goes on to the POST to config.apiUrl
\* with config.projectToken.
ReportErrorWith ==
  /\ reporter.exists
  /\ reporter.enabled /\ reporter.isInitialized
  /\ cfgLast' = CfgDid("reportError", NoUpdates, FALSE)
  /\ UNCHANGED <<reporter, secEnv, notConfig>>

\* The page drops its reporter.
Discard ==
  /\ reporter.exists
  /\ reporter' = NoReporter
  /\ cfgLast' = CfgDid("", NoUpdates, FALSE)
  /\ UNCHANGED <<secEnv, notConfig>>

NextConfig ==
  \/ \E u \in Updates : Construct(u)
  \/ \E u \in Updates : UpdateConfig(u)
  \/ ReportErrorWith
  \/ Discard


(***************************************************************************)
(* SecurityValidator.sanitizeData over the payload of a report.           *)
(***************************************************************************)

maxSanitizeDepth == 1   \* the depth past which sanitizeObject stops (10 in the source)
MaxNesting == 2         \* nesting of the data the callers build
MaxEntries == 2         \* entries of one object

\* JSON data: a string, an object (entries key/value) or an array (entries with an
\* empty key).
Str(text) == [kind |-> "string", text |-> text, items |-> <<>>]
Obj(entries) == [kind |-> "object", text |-> "", items |-> entries]
Arr(entries) == [kind |-> "array", text |-> "", items |-> entries]
Entry(key, value) == [key |-> key, value |-> value]

DataKeys == {"apiKey", "session_id", "normalData"}
DataStrings == {"safe-data", "password=hunter2"}

\* key.toLowerCase()
toLowerCase(key) ==
  CASE key = "apiKey" -> "apikey"
    [] key = "normalData" -> "normaldata"
    [] OTHER -> key

\* sensitiveFields.some(field => text.includes(field)) on the texts at hand:
\* "apikey" has "key" and "session_id" has "session"; no field is part of "apiKey",
\* "normalData" or "normaldata".
includesSensitiveField(text) == text \in {"apikey", "session_id"}

\* The key test of sanitizeObject without the lower-casing.
isSensitiveKey_caseSensitive(key) == includesSensitiveField(key)

\* The key test of sanitizeObject.
isSensitiveKey(key) == includesSensitiveField(toLowerCase(key))

\* SecurityValidator.sanitizeString: a `password=...` assignment is masked.
sanitizeString(text) == IF text = "password=hunter2" THEN "[REDACTED]" ELSE text

RECURSIVE sanitizeObject(_, _)
\* The inner sanitizeObject(obj, depth) of sanitizeData.
sanitizeObject(obj, depth) ==
  IF depth > maxSanitizeDepth THEN Str("[Max Depth Reached]")
  ELSE IF obj.kind = "string" THEN Str(sanitizeString(obj.text))
  ELSE IF obj.kind = "array"
    THEN Arr([i \in 1..Len(obj.items) |->
                Entry("", sanitizeObject(obj.items[i].value, depth + 1))])
  ELSE Obj([i \in 1..Len(obj.items) |->
              IF isSensitiveKey(obj.items[i].key)
                THEN Entry(obj.items[i].key, Str("[REDACTED]"))
                ELSE Entry(obj.items[i].key,
                           sanitizeObject(obj.items[i].value, depth + 1))])

\* SecurityValidator.sanitizeData(data): a shallow copy, then sanitizeObject at depth 0.
sanitizeData(data) == sanitizeObject(data, 0)

RECURSIVE NestingOf(_)
\* How deep the data built so far is nested: the callers below nest through the
\* first entry only.
NestingOf(obj) ==
  IF obj.items = <<>> THEN 0 ELSE 1 + NestingOf(obj.items[1].value)

NoOutput == [done |-> FALSE, out |-> Str(""), twinOut |-> Str("")]

SanitizeIdle ==
  /\ sanInput = Str("")
  /\ sanTwin = Str("")
  /\ sanResult = NoOutput

\* The caller starts from a string; the twin is the same data.
SanitizeInit ==
  /\ \E s \in DataStrings : sanInput = Str(s) /\ sanTwin = Str(s)
  /\ sanResult = NoOutput

notSanitize ==
  <<now, rlVars, retryVars, cbVars, erVars, quotaVars, configVars, batchVars, breadcrumbVars, fingerprintVars, monitorVars, twinVars>>

\* The keys under which the callers store secrets: "apiKey" contains key and
\* "session_id" contains session.
SecretKeys == {"apiKey", "session_id"}

\* What the twin may hold under key where the data's counterpart is tv: another
\* value under a secret key, the counterpart elsewhere.
TwinValues(key, tv) ==
  IF key \in SecretKeys THEN {tv, Str("secret123")}
  ELSE {tv}

\* The caller puts the data under a key of a new object.
WrapObject(key) ==
  /\ ~sanResult.done
  /\ NestingOf(sanInput) < MaxNesting
  /\ sanInput' = Obj(<<Entry(key, sanInput)>>)
  /\ \E tv \in TwinValues(key, sanTwin) : sanTwin' = Obj(<<Entry(key, tv)>>)
  /\ UNCHANGED <<sanResult, notSanitize>>

\* The caller puts the data into a new array.
WrapArray ==
  /\ ~sanResult.done
  /\ NestingOf(sanInput) < MaxNesting
  /\ sanInput' = Arr(<<Entry("", sanInput)>>)
  /\ sanTwin' = Arr(<<Entry("", sanTwin)>>)
  /\ UNCHANGED <<sanResult, notSanitize>>

\* The caller adds a string under a further key of the object.
AddEntry(key, text) ==
  /\ ~sanResult.done
  /\ sanInput.kind = "object"
  /\ Len(sanInput.items) < MaxEntries
  /\ \A i \in 1..Len(sanInput.items) : sanInput.items[i].key # key
  /\ sanInput' = Obj(Append(sanInput.items, Entry(key, Str(text))))
  /\ \E tv \in TwinValues(key, Str(text)) :
       sanTwin' = Obj(Append(sanTwin.items, Entry(key, tv)))
  /\ UNCHANGED <<sanResult, notSanitize>>

\* sendReportDirectly: sanitizeData(rawPayload), on the data and on its twin.
Sanitize ==
  /\ ~sanResult.done
  /\ sanInput.kind = "object"
  /\ sanResult' = [done |-> TRUE, out |-> sanitizeData(sanInput),
                   twinOut |-> sanitizeData(sanTwin)]
  /\ UNCHANGED <<sanInput, sanTwin, notSanitize>>

NextSanitize ==
  \/ \E key \in DataKeys : WrapObject(key)
  \/ WrapArray
  \/ \E key \in DataKeys, text \in DataStrings : AddEntry(key, text)
  \/ Sanitize


(***************************************************************************)
(* BatchManager with its send function injected: addToBatch, flush, the    *)
(* one-shot timer of a partial batch, and the sends in flight.             *)
(***************************************************************************)

batchSize == 3             \* config.batchSize
batchTimeoutMs == 1        \* config.batchTimeout
batchMaxPayloadSize == 3   \* config.maxPayloadSize
MaxBatched == 3            \* addToBatch calls observed
ReportSizes == {1, 2}      \* serialized size of one report

BatchIds == 1..MaxBatched

\* The timer handle this.batchTimeout: none, or the time left until it fires.
NoTimer == -1
\* A handle whose callback has run without sendBatch clearing it.
StaleTimer == -2

Batched(id, size) == [id |-> id, size |-> size]

\* BatchManager.calculatePayloadSize: the serialized size of the batch.
calculatePayloadSize(batch) == SumOver([i \in 1..Len(batch) |-> batch[i].size], 1..Len(batch))

\* BatchManager.shouldSendBatch
shouldSendBatch(batch) ==
  \/ Len(batch) >= batchSize
  \/ calculatePayloadSize(batch) >= batchMaxPayloadSize

\* sendBatch leaving the batch in memory while the send is awaited.
sendBatch_keepsBatch(batch) ==
  [currentBatch |-> batch, batchTimeout |-> NoTimer, sent |-> batch]

\* BatchManager.sendBatch up to its await: the batch is copied, the current batch
\* is emptied and the timer cleared, then the copy goes to the send function.
sendBatch(batch) ==
  [currentBatch |-> <<>>, batchTimeout |-> NoTimer, sent |-> batch]

\* BatchManager.startBatchTimeout never arming the timer.
startBatchTimeout_never == NoTimer

\* BatchManager.startBatchTimeout: the new handle.
startBatchTimeout == batchTimeoutMs

\* BatchManager.addToBatch(error) on the batch and the handle: what they become
\* and what, if anything, is handed to the send function.
addToBatch(batch, timer, error) ==
  LET pushed == Append(batch, error) IN
  IF shouldSendBatch(pushed) THEN sendBatch(pushed)
  ELSE [currentBatch |-> pushed,
        batchTimeout |-> IF timer = NoTimer THEN startBatchTimeout ELSE timer,
        sent |-> <<>>]

BatchInFlight(batch, caller) == [batch |-> batch, caller |-> caller]
BatchDid(caller, outcome, batch) == [caller |-> caller, outcome |-> outcome, batch |-> batch]

BatchInit ==
  /\ currentBatch = <<>>
  /\ batchTimeout = NoTimer
  /\ batInFlight = {}
  /\ batHanded = <<>>
  /\ batLast = BatchDid("", "", <<>>)

notBatch ==
  <<now, rlVars, retryVars, cbVars, erVars, quotaVars, configVars, sanitizeVars,
    breadcrumbVars, fingerprintVars, monitorVars, twinVars>>

\* The send function is called with a batch.
Handing(sent, caller) ==
  /\ batInFlight' = IF sent = <<>> THEN batInFlight ELSE batInFlight \cup {BatchInFlight(sent, caller)}
  /\ batHanded' = IF sent = <<>> THEN batHanded ELSE Append(batHanded, sent)

\* addToBatch(error): the promise of its sendBatch is not kept.
AddToBatch(size) ==
  /\ LET id == 1 + Len(currentBatch)
                 + SumOver([i \in 1..Len(batHanded) |-> Len(batHanded[i])], 1..Len(batHanded))
         res == addToBatch(currentBatch, batchTimeout, Batched(id, size))
     IN /\ id <= MaxBatched
        /\ currentBatch' = res.currentBatch
        /\ batchTimeout' = res.batchTimeout
        /\ Handing(res.sent, "addToBatch")
  /\ UNCHANGED <<batLast, notBatch>>

\* flush() on a batch that holds reports: sendBatch is awaited.
Flush ==
  /\ currentBatch # <<>>
  /\ LET res == sendBatch(currentBatch)
     IN /\ currentBatch' = res.currentBatch
        /\ batchTimeout' = res.batchTimeout
        /\ Handing(res.sent, "flush")
  /\ UNCHANGED <<batLast, notBatch>>

\* flush() on an empty batch returns at once.
FlushEmpty ==
  /\ currentBatch = <<>>
  /\ batLast' = BatchDid("flush", "resolved", <<>>)
  /\ UNCHANGED <<currentBatch, batchTimeout, batInFlight, batHanded, notBatch>>

\* The timer's callback.
BatchTimerFires ==
  /\ batchTimeout = 0
  /\ LET res == IF currentBatch # <<>> THEN sendBatch(currentBatch)
                ELSE [currentBatch |-> <<>>, batchTimeout |-> StaleTimer, sent |-> <<>>]
     IN /\ currentBatch' = res.currentBatch
        /\ batchTimeout' = res.batchTimeout
        /\ Handing(res.sent, "timer")
  /\ UNCHANGED <<batLast, notBatch>>

\* The send function's promise resolves: sendBatch updates its statistics and returns.
BatchSendResolves ==
  \E f \in batInFlight :
    /\ batInFlight' = batInFlight \ {f}
    /\ batLast' = BatchDid(f.caller, "resolved", f.batch)
    /\ UNCHANGED <<currentBatch, batchTimeout, batHanded, notBatch>>

\* The send function's promise rejects: sendBatch logs and rethrows.  flush awaits
\* it, so its caller gets the exception; addToBatch and the timer dropped the promise.
BatchSendRejects ==
  \E f \in batInFlight :
    /\ batInFlight' = batInFlight \ {f}
    /\ batLast' = BatchDid(f.caller,
                           IF f.caller = "flush" THEN "rejected" ELSE "unhandled rejection",
                           f.batch)
    /\ UNCHANGED <<currentBatch, batchTimeout, batHanded, notBatch>>

\* Time passes for the armed timer.
BatchTick ==
  /\ batchTimeout > 0
  /\ batchTimeout' = batchTimeout - 1
  /\ UNCHANGED <<currentBatch, batInFlight, batHanded, batLast, notBatch>>

NextBatch ==
  \/ \E size \in ReportSizes : AddToBatch(size)
  \/ Flush
  \/ FlushEmpty
  \/ BatchTimerFires
  \/ BatchSendResolves
  \/ BatchSendRejects
  \/ BatchTick

BatchIdle == BatchInit


(***************************************************************************)
(* BreadcrumbManager: the trail under addBreadcrumb and clearBreadcrumbs.  *)
(***************************************************************************)

MaxBreadcrumbsCfg == 3   \* the largest configured maxBreadcrumbs
MaxCrumbs == 6           \* addBreadcrumb calls observed
Categories == {"custom", "navigation"}

Crumb(id, category) == [id |-> id, category |-> category]

\* Array.prototype.slice(start): a negative start counts from the end, and -0 is 0.
slice(arr, start) ==
  LET from == IF start < 0
                THEN (IF Len(arr) + start > 0 THEN Len(arr) + start ELSE 0)
                ELSE (IF start < Len(arr) THEN start ELSE Len(arr))
  IN SubSeq(arr, from + 1, Len(arr))

\* BreadcrumbManager.addBreadcrumb on the trail.
addBreadcrumb(trail, max, crumb) ==
  LET pushed == Append(trail, crumb) IN
  IF Len(pushed) > max THEN slice(pushed, -max) ELSE pushed

BreadcrumbInit ==
  /\ maxBreadcrumbs \in 0..MaxBreadcrumbsCfg
  /\ breadcrumbs = <<>>
  /\ bcAdded = <<>>

BreadcrumbIdle ==
  /\ maxBreadcrumbs = MaxBreadcrumbsCfg
  /\ breadcrumbs = <<>>
  /\ bcAdded = <<>>

notBreadcrumb ==
  <<now, rlVars, retryVars, cbVars, erVars, quotaVars, configVars, sanitizeVars, batchVars, fingerprintVars, monitorVars, twinVars>>

\* addBreadcrumb(message, category)
AddBreadcrumb(category) ==
  /\ Len(bcAdded) < MaxCrumbs
  /\ LET crumb == Crumb(Len(bcAdded) + 1, category)
     IN /\ breadcrumbs' = addBreadcrumb(breadcrumbs, maxBreadcrumbs, crumb)
        /\ bcAdded' = Append(bcAdded, crumb)
  /\ UNCHANGED <<maxBreadcrumbs, notBreadcrumb>>

\* clearBreadcrumbs()
ClearBreadcrumbs ==
  /\ breadcrumbs # <<>>
  /\ breadcrumbs' = <<>>
  /\ UNCHANGED <<maxBreadcrumbs, bcAdded, notBreadcrumb>>

NextBreadcrumb ==
  \/ \E category \in Categories : AddBreadcrumb(category)
  \/ ClearBreadcrumbs

(***************************************************************************)
(* RateLimiter.createErrorFingerprint: strings are sequences of character  *)
(* codes, the hash is the 32-bit integer the code computes.                *)
(***************************************************************************)

MaxMessageLen == 2       \* the longest error.message drawn
messageSignatureLength == 100
fingerprintLength == 32
stackDepth == 3

\* 'A', 'B', 'a': "Aa" and "BB" are two messages of the same length.
MessageChars == {65, 66, 97}
RECURSIVE StringsUpTo(_)
StringsUpTo(n) ==
  IF n = 0 THEN {<<>>}
  ELSE StringsUpTo(n - 1) \cup
       {Append(s, c) : s \in {x \in StringsUpTo(n - 1) : Len(x) = n - 1}, c \in MessageChars}
Messages == StringsUpTo(MaxMessageLen)

\* One line of error.stack: the text before the position, and line and column.
Frame(text, line, col) == [text |-> text, line |-> line, col |-> col]
\* "f.js" and "chrome-extension://x.js"
AppFile == <<102, 46, 106, 115>>
Stacks == {<<>>, <<Frame(AppFile, 1, 2)>>}
\* additionalData: undefined, {type: 'type1'}, {type: 'type2'}
AdditionalData == {"undefined", "type1", "type2"}
FpError(message, stack) == [message |-> message, stack |-> stack, name |-> <<69, 114, 114, 111, 114>>]
FpErrors == {FpError(m, s) : m \in Messages, s \in Stacks}

\* String.prototype.substring(0, end)
substring(s, end) == SubSeq(s, 1, IF Len(s) < end THEN Len(s) ELSE end)

\* String.prototype.padEnd(length, '0')
RECURSIVE padEnd(_, _)
padEnd(s, length) == IF Len(s) >= length THEN s ELSE padEnd(Append(s, 48), length)

\* Array.prototype.join('|')
RECURSIVE join(_)
join(parts) ==
  IF parts = <<>> THEN <<>>
  ELSE IF Len(parts) = 1 THEN parts[1]
  ELSE parts[1] \o <<124>> \o join(Tail(parts))

\* frame.replace(/:\d+:\d+/g, ':XX:XX'): the position of a frame becomes ":XX:XX".
normalizeFrame(frame) == frame.text \o <<58, 88, 88, 58, 88, 88>>

\* RateLimiter.extractStackSignature(stack, depth); every frame drawn names a
\* .js file of the application.
extractStackSignature(stack, depth) ==
  IF stack = <<>> THEN <<>>
  ELSE LET frames == SubSeq(stack, 1, IF Len(stack) < depth THEN Len(stack) ELSE depth)
       IN join([i \in 1..Len(frames) |-> normalizeFrame(frames[i])])

\* ToInt32 of hash * 31 + char, computed on 16-bit halves.
hashStep(hash, char) ==
  LET hi == (hash \div 65536) % 65536
      lo == hash % 65536
      lo2 == lo * 31 + char
      hi2 == (hi * 31 + (lo2 \div 65536)) % 65536
      lo3 == lo2 % 65536
  IN IF hi2 >= 32768 THEN (hi2 - 65536) * 65536 + lo3 ELSE hi2 * 65536 + lo3

\* for (i...) { hash = ((hash << 5) - hash) + char; hash = hash & hash }
RECURSIVE hashOf(_, _)
hashOf(hash, s) == IF s = <<>> THEN hash ELSE hashOf(hashStep(hash, Head(s)), Tail(s))

\* The decimal digits of a number n > 0.
RECURSIVE digits(_)
digits(n) == IF n < 10 THEN <<48 + n>> ELSE Append(digits(n \div 10), 48 + (n % 10))

\* Number.prototype.toString() of a 32-bit integer.
toString(n) ==
  IF n >= 0 THEN digits(n)
  ELSE LET last == (10 - (n % 10)) % 10
           rest == -((n + last) \div 10)
       IN <<45>> \o (IF rest = 0 THEN <<>> ELSE digits(rest)) \o <<48 + last>>

\* The character of a base64 digit.
base64Char(d) ==
  IF d < 26 THEN 65 + d
  ELSE IF d < 52 THEN 97 + (d - 26)
  ELSE IF d < 62 THEN 48 + (d - 52)
  ELSE IF d = 62 THEN 43 ELSE 47

\* btoa(s) of a string of Latin-1 characters.
RECURSIVE btoa(_)
btoa(s) ==
  IF s = <<>> THEN <<>>
  ELSE IF Len(s) = 1 THEN
    <<base64Char(s[1] \div 4), base64Char((s[1] % 4) * 16), 61, 61>>
  ELSE IF Len(s) = 2 THEN
    <<base64Char(s[1] \div 4), base64Char((s[1] % 4) * 16 + (s[2] \div 16)),
      base64Char((s[2] % 16) * 4), 61>>
  ELSE
    <<base64Char(s[1] \div 4), base64Char((s[1] % 4) * 16 + (s[2] \div 16)),
      base64Char((s[2] % 16) * 4 + (s[3] \div 64)), base64Char(s[3] % 64)>>
    \o btoa(SubSeq(s, 4, Len(s)))

\* RateLimiter.createErrorFingerprint(error, additionalData)
createErrorFingerprint(error, additionalData) ==
  LET stackSignature == extractStackSignature(error.stack, stackDepth)
      messageSignature == substring(error.message, messageSignatureLength)
      errorType == error.name
      combined == join(<<stackSignature, messageSignature, errorType>>)
      hash == hashOf(0, combined)
  IN padEnd(substring(btoa(toString(hash)), fingerprintLength), fingerprintLength)

FpCall(error, data, out) == [called |-> TRUE, error |-> error, data |-> data, out |-> out]
NoFpCall == [called |-> FALSE, error |-> FpError(<<>>, <<>>), data |-> "undefined", out |-> <<>>]

FingerprintInit ==
  /\ fpPrev = NoFpCall
  /\ fpLast = NoFpCall

FingerprintIdle == FingerprintInit

notFingerprint ==
  <<now, rlVars, retryVars, cbVars, erVars, quotaVars, configVars, sanitizeVars, batchVars,
    breadcrumbVars, monitorVars, twinVars>>

\* rateLimiter.createErrorFingerprint(error, additionalData) is called.
CreateErrorFingerprint(error, data) ==
  /\ fpPrev' = fpLast
  /\ fpLast' = FpCall(error, data, createErrorFingerprint(error, data))
  /\ UNCHANGED notFingerprint

NextFingerprint ==
  \E error \in FpErrors, data \in AdditionalData : CreateErrorFingerprint(error, data)

(***************************************************************************)
(* ErrorReporter.sendReportDirectly and the request counters of SDKMonitor *)
(***************************************************************************)

MaxSends == 4            \* the send attempts observed

\* How a send attempt ends: the fetch answers 2xx; sanitizeData or JSON.stringify
\* throws; the payload fails size validation; the server answers 429, 413 or
\* another status; the request is aborted by the timeout; fetch rejects.
SendOutcomes ==
  {"ok", "sanitize throws", "invalid", "429", "413", "http error", "abort", "network error"}

\* The outcomes that go through `throw` inside the try block around fetch.
ThrownAroundFetch == {"429", "413", "http error", "abort", "network error"}

\* SDKMonitor.recordRequestSuccess / recordRequestFailure on the counters.
recordRequestSuccess(m) == [m EXCEPT !.requestsSuccessful = @ + 1]
recordRequestFailure(m) == [m EXCEPT !.requestsFailed = @ + 1]

\* The statements of sendReportDirectly that run before an error is thrown: the
\* failure is recorded at the throw site for a payload that fails validation and
\* for a response that is not ok.
beforeThrow(m, outcome) ==
  IF outcome \in {"invalid", "429", "413", "http error"} THEN recordRequestFailure(m) ELSE m

\* The catch around fetch: it records the failure (as 'Request timeout' for an
\* AbortError) and rethrows.
fetchCatch(m, outcome) ==
  IF outcome \in ThrownAroundFetch THEN recordRequestFailure(m) ELSE m

\* The catch around the whole body: it records the failure and rethrows.
globalCatch(m, outcome) ==
  IF outcome # "ok" THEN recordRequestFailure(m) ELSE m

\* ErrorReporter.sendReportDirectly(report) ending as outcome: the counters
\* afterwards.
sendReportDirectlyCounts(m, outcome) ==
  IF outcome = "ok" THEN recordRequestSuccess(m)
  ELSE globalCatch(fetchCatch(beforeThrow(m, outcome), outcome), outcome)

MonitorInit ==
  /\ sdkMetrics = [requestsSuccessful |-> 0, requestsFailed |-> 0]
  /\ sdkSends = <<>>

MonitorIdle == MonitorInit

notMonitor ==
  <<now, rlVars, retryVars, cbVars, erVars, quotaVars, configVars, sanitizeVars, batchVars,
    breadcrumbVars, fingerprintVars, twinVars>>

\* A call of sendReportDirectly(report) runs to its end.
SendReportDirectly(outcome) ==
  /\ Len(sdkSends) < MaxSends
  /\ sdkMetrics' = sendReportDirectlyCounts(sdkMetrics, outcome)
  /\ sdkSends' = Append(sdkSends, outcome)
  /\ UNCHANGED notMonitor

NextMonitor == \E outcome \in SendOutcomes : SendReportDirectly(outcome)

(***************************************************************************)
(* RateLimiter.cleanup: a limiter that is cleaned up, next to a limiter    *)
(* that receives the same calls at the same times and is never cleaned up. *)
(***************************************************************************)

CleanupMaxTime == 4      \* last instant of the clock while the two limiters are observed

\* cleanup() deleting a request entry one tick before its window is over and a
\* fingerprint as soon as its age reaches duplicateErrorWindow.
cleanup_eager(reqs, recent, t) ==
  [requests |-> [k \in Keys |->
      IF reqs[k].present /\ t + 1 >= reqs[k].resetTime THEN NoRequestInfo ELSE reqs[k]],
   recentErrors |-> [f \in Fingerprints |->
      IF recent[f] # Absent /\ t - recent[f] >= duplicateErrorWindow THEN Absent ELSE recent[f]]]

\* The periodic cleanup() of the limiter.
periodicCleanup(reqs, recent, t) == cleanup(reqs, recent, t)

\* true and false as the numbers an observation is recorded with.
AsNumber(b) == IF b THEN 1 ELSE 0

\* What the latest call returned on either limiter, and whether cleanup had made
\* the entry it looked at differ between the two.
Observed(op, real, twin, differed) ==
  [op |-> op, real |-> real, twin |-> twin, differed |-> differed]

TwinInit ==
  /\ twinRequests = [k \in Keys |-> NoRequestInfo]
  /\ twinRecentErrors = [f \in Fingerprints |-> Absent]
  /\ twinObs = Observed("", 0, 0, FALSE)

TwinIdle == TwinInit

notTwin ==
  <<retryVars, cbVars, erVars, quotaVars, configVars, sanitizeVars, batchVars,
    breadcrumbVars, fingerprintVars, monitorVars>>

\* canMakeRequest(key) is called on both limiters.
BothCanMakeRequest(key) ==
  LET r == canMakeRequest(requests, key, now, maxRequests)
      w == canMakeRequest(twinRequests, key, now, maxRequests)
  IN
  /\ requests' = r.requests
  /\ twinRequests' = w.requests
  /\ rlLast' = [op |-> "canMakeRequest", arg |-> key, time |-> now, ret |-> r.ret]
  /\ twinObs' = Observed("canMakeRequest", AsNumber(r.ret), AsNumber(w.ret),
                         requests[key] # twinRequests[key])
  /\ UNCHANGED <<now, maxRequests, recentErrors, rlAccepted, rlReported, twinRecentErrors,
                 notTwin>>

\* canReportError(fingerprint) is called on both limiters.
BothCanReportError(fp) ==
  LET r == canReportError(recentErrors, fp, now)
      w == canReportError(twinRecentErrors, fp, now)
  IN
  /\ recentErrors' = r.recentErrors
  /\ twinRecentErrors' = w.recentErrors
  /\ rlLast' = [op |-> "canReportError", arg |-> fp, time |-> now, ret |-> r.ret]
  /\ twinObs' = Observed("canReportError", AsNumber(r.ret), AsNumber(w.ret),
                         recentErrors[fp] # twinRecentErrors[fp])
  /\ UNCHANGED <<now, maxRequests, requests, rlAccepted, rlReported, twinRequests, notTwin>>

\* getRemainingRequests(key) is called on both limiters.
BothGetRemainingRequests(key) ==
  /\ requests[key] # twinRequests[key] \/ twinObs.op # "getRemainingRequests"
  /\ rlLast' = [op |-> "getRemainingRequests", arg |-> key, time |-> now, ret |-> FALSE]
  /\ twinObs' = Observed("getRemainingRequests",
                         getRemainingRequests(requests, key, now, maxRequests),
                         getRemainingRequests(twinRequests, key, now, maxRequests),
                         requests[key] # twinRequests[key])
  /\ UNCHANGED <<now, maxRequests, requests, recentErrors, rlAccepted, rlReported,
                 twinRequests, twinRecentErrors, notTwin>>

\* The periodic timer runs cleanup() on the limiter that has one.
CleanupOne ==
  LET r == periodicCleanup(requests, recentErrors, now) IN
  /\ requests' = r.requests
  /\ recentErrors' = r.recentErrors
  /\ rlLast' = [op |-> "cleanup", arg |-> "none", time |-> now, ret |-> FALSE]
  /\ UNCHANGED <<now, maxRequests, rlAccepted, rlReported, twinRequests, twinRecentErrors,
                 twinObs, notTwin>>

\* The clock advances for both limiters.
TwinTick ==
  /\ now < CleanupMaxTime
  /\ now' = now + 1
  /\ UNCHANGED <<rlVars, twinRequests, twinRecentErrors, twinObs, notTwin>>

NextTwin ==
  \/ \E k \in Keys : BothCanMakeRequest(k)
  \/ \E f \in Fingerprints : BothCanReportError(f)
  \/ \E k \in Keys : BothGetRemainingRequests(k)
  \/ CleanupOne
  \/ TwinTick

\* Every component observed on its own only, at rest.
RestIdle == QuotaIdle /\ ConfigIdle /\ SanitizeIdle /\ BatchIdle /\ BreadcrumbIdle /\ FingerprintIdle /\ MonitorIdle /\ TwinIdle


vars == <<now, rlVars, retryVars, cbVars, erVars, restVars>>

InitRL == now = 1 /\ RLInit /\ RetryIdle /\ CBInit /\ ERIdle /\ RestIdle

SpecRL == InitRL /\ [][NextRL]_vars

SpecDedup == InitRL /\ [][NextDedup]_vars

InitRetry == now = 1 /\ RLIdle /\ RetryInit /\ CBInit /\ ERIdle /\ RestIdle

SpecRetry == InitRetry /\ [][NextRetry]_vars

InitCB == now = 1 /\ RLIdle /\ RetryIdle /\ CBInit /\ ERIdle /\ RestIdle

SpecCB == InitCB /\ [][NextCB]_vars

\* A reporter built with maxRequests = MaxRequestsCfg and maxRetries = ErMaxRetries.
InitER ==
  /\ now = 1 /\ RLIdle /\ CBInit /\ ERInit
  /\ RetryInit /\ maxRetries = ErMaxRetries
  /\ RestIdle

SpecER == InitER /\ [][NextER]_vars

InitOffline == now = 1 /\ RLIdle /\ RetryIdle /\ CBInit /\ OfflineInit /\ RestIdle

SpecOffline == InitOffline /\ [][NextOffline]_vars

\* A reporter with offline support and no send retries (maxRetries = 0), whose
\* queue is also flushed by hand.
InitFlush ==
  /\ now = 1 /\ RLIdle /\ CBInit /\ ERInit /\ enableOfflineSupport
  /\ RetryInit /\ maxRetries = 0
  /\ RestIdle

\* Last instant of the clock while the flushed reporter is observed.
FlushMaxTime == 2

\* The clock advances while the flushed reporter is observed.
FlushTick == now < FlushMaxTime /\ RLTick

NextFlush ==
  \/ \E c \in ErCalls, fp \in Fingerprints, size \in PayloadSizes, fits \in BOOLEAN :
       ReportError(c, fp, size, fits)
  \/ \E c \in ErCalls : FetchResolves(c)
  \/ \E c \in ErCalls, err \in SendErrors : FetchRejects(c, err)
  \/ \E c \in ErCalls : ValidationFails(c)
  \/ \E d \in Drainers : DrainSendResolves(d)
  \/ \E d \in Drainers : DrainSendRejects(d)
  \/ \E c \in ErCalls : AfterSend(c)
  \/ GoOffline
  \/ GoOnline
  \/ FlushQueue
  \/ FlushTick

SpecFlush == InitFlush /\ [][NextFlush]_vars

\* A reporter that is online and whose sends succeed, under a burst of reports.
NextBurst ==
  \/ \E c \in ErCalls, fp \in Fingerprints, size \in PayloadSizes :
       ReportErrorBurst(c, fp, size)
  \/ \E c \in ErCalls : FetchResolves(c)
  \/ \E c \in ErCalls : AfterSend(c)
  \/ ERTick

SpecBurst == InitER /\ [][NextBurst]_vars

InitQuota == now = 1 /\ RLIdle /\ RetryIdle /\ CBInit /\ QuotaInit /\ ConfigIdle /\ SanitizeIdle
  /\ BatchIdle /\ BreadcrumbIdle /\ FingerprintIdle /\ MonitorIdle /\ TwinIdle

InitConfig ==
  now = 1 /\ RLIdle /\ RetryIdle /\ CBInit /\ ERIdle /\ QuotaIdle /\ ConfigInit /\ SanitizeIdle
  /\ BatchIdle /\ BreadcrumbIdle /\ FingerprintIdle /\ MonitorIdle /\ TwinIdle

SpecConfig == InitConfig /\ [][NextConfig]_vars

SpecQuota == InitQuota /\ [][NextQuota]_vars

InitSanitize ==
  now = 1 /\ RLIdle /\ RetryIdle /\ CBInit /\ ERIdle /\ QuotaIdle /\ ConfigIdle /\ SanitizeInit
  /\ BatchIdle /\ BreadcrumbIdle /\ FingerprintIdle /\ MonitorIdle /\ TwinIdle

SpecSanitize == InitSanitize /\ [][NextSanitize]_vars

InitBatch ==
  /\ now = 1 /\ RLIdle /\ RetryIdle /\ CBInit /\ ERIdle
  /\ QuotaIdle /\ ConfigIdle /\ SanitizeIdle /\ BatchInit /\ BreadcrumbIdle /\ FingerprintIdle /\ MonitorIdle /\ TwinIdle

SpecBatch == InitBatch /\ [][NextBatch]_vars

\* The browser runs a due timer callback, and time does not stop.
SpecBatchLive ==
  SpecBatch /\ WF_vars(BatchTimerFires) /\ WF_vars(BatchTick)

InitBreadcrumb ==
  /\ now = 1 /\ RLIdle /\ RetryIdle /\ CBInit /\ ERIdle
  /\ QuotaIdle /\ ConfigIdle /\ SanitizeIdle /\ BatchIdle /\ BreadcrumbInit /\ FingerprintIdle /\ MonitorIdle /\ TwinIdle

SpecBreadcrumb == InitBreadcrumb /\ [][NextBreadcrumb]_vars

\* ------------------------------------------------------------ claims C1, C2
\* The calls of canMakeRequest(k) that returned true at an instant in from..(to - 1).
AcceptedIn(k, from, to) ==
  SumOver(rlAccepted[k], {u \in Times : from <= u /\ u < to})

\* C1 as stated: for every key and every interval of length windowMs, at most
\* maxRequests calls of canMakeRequest(key) return true within that interval.
C1_AnyInterval ==
  \A k \in Keys : \A t \in Times : AcceptedIn(k, t, t + windowMs) <= maxRequests

\* C1 as amended: for every key, within each fixed window of that key (from the call
\* that opened it until windowMs later: resetTime - windowMs up to resetTime) at most
\* maxRequests calls return true, they are the ones the window counted, and a call that
\* returns false inside a window finds it full; an arbitrary interval of length
\* windowMs can straddle two fixed windows and holds at most 2 * maxRequests accepted calls.
C1_FixedWindow ==
  /\ \A k \in Keys :
       requests[k].present =>
         /\ AcceptedIn(k, requests[k].resetTime - windowMs, requests[k].resetTime)
              = requests[k].count
         /\ requests[k].count <= maxRequests
  /\ \A k \in Keys : \A t \in Times : AcceptedIn(k, t, t + windowMs) <= 2 * maxRequests
  /\ (/\ rlLast.op = "canMakeRequest"
      /\ ~rlLast.ret
      /\ maxRequests > 0)
       => /\ requests[rlLast.arg].present
          /\ rlLast.time < requests[rlLast.arg].resetTime
          /\ requests[rlLast.arg].count = maxRequests

\* C1's case: a window that took maxRequests calls has just refused the next one.
C1_Witness ==
  /\ rlLast.op = "canMakeRequest"
  /\ ~rlLast.ret
  /\ maxRequests = MaxRequestsCfg
  /\ requests[rlLast.arg].present
  /\ now < requests[rlLast.arg].resetTime
  /\ AcceptedIn(rlLast.arg, requests[rlLast.arg].resetTime - windowMs,
                requests[rlLast.arg].resetTime) = maxRequests

\* The instants at which canReportError(f) returned true.
ReportedAt(f) == {t \in Times : rlReported[f][t] > 0}

\* C2: for every fingerprint, canReportError returns true at most once within any
\* interval of length duplicateErrorWindow (two accepted calls are more than
\* duplicateErrorWindow apart), and a call made after duplicateErrorWindow has elapsed
\* since the last accepted call returns true (a refused call has an accepted one no
\* more than duplicateErrorWindow before it).
C2_OncePerWindow ==
  /\ \A f \in Fingerprints : \A t \in Times : rlReported[f][t] <= 1
  /\ \A f \in Fingerprints : \A t1, t2 \in ReportedAt(f) :
       t1 < t2 => t2 - t1 > duplicateErrorWindow
  /\ (rlLast.op = "canReportError" /\ ~rlLast.ret)
       => \E t \in ReportedAt(rlLast.arg) :
            t <= rlLast.time /\ rlLast.time - t <= duplicateErrorWindow

\* C2's case: a fingerprint refused inside the window is accepted again after it.
C2_Witness ==
  /\ rlLast.op = "canReportError"
  /\ rlLast.ret
  /\ \E t \in ReportedAt(rlLast.arg) :
       /\ t < rlLast.time
       /\ rlLast.time - t = duplicateErrorWindow + 1

\* --------------------------------------------------------- claims C5, C6, C7
\* The failures the claims call non-retryable: HTTP 401 or 403 (as error.status or
\* as the status in the message), or a message matching 401/403/unauthorized/forbidden.
AuthClassified(name) ==
  LET err == ErrorOf(name) IN
  \/ err.status \in {401, 403}
  \/ err.http \in {401, 403}
  \/ /\ err.http = 0
     /\ \/ Includes(err, "401") \/ Includes(err, "403")
        \/ LowerIncludes(err, "unauthorized") \/ LowerIncludes(err, "forbidden")

\* No other call uses this call's operation id and clearRetryCount was not called on it.
Undisturbed(e) ==
  /\ exec[e].pc # "idle"
  /\ exec[e].id \notin retryCleared
  /\ \A d \in Execs \ {e} : exec[d].pc = "idle" \/ exec[d].id # exec[e].id

\* C5: an operation whose failures are ordinary errors (not 401/403-classified) is
\* invoked at most maxRetries + 1 times, and executeWithRetry rejects only when the
\* operation has failed maxRetries + 1 times: an operation that fails maxRetries times
\* and then succeeds resolves after maxRetries + 1 invocations.
C5_OrdinaryFailuresRetried ==
  \A e \in Execs :
    (/\ Undisturbed(e)
     /\ exec[e].lastErr # ""
     /\ ~AuthClassified(exec[e].lastErr))
      => /\ exec[e].invoked <= maxRetries + 1
         /\ exec[e].pc = "rejected" => exec[e].invoked = maxRetries + 1

\* C6: a failure classified as non-retryable (401/403/unauthorized/forbidden) is never
\* retried: no call waits for a retry after such a failure, whatever maxRetries is.
C6_AuthFailureNeverRetried ==
  \A e \in Execs :
    exec[e].pc = "delay" => ~AuthClassified(exec[e].lastErr)

\* C7: every failure that is not classified as 401/403/unauthorized/forbidden is
\* retried as long as retries remain: executeWithRetry rejects with such a failure only
\* when the retry count it read had reached maxRetries.
C7_OtherFailuresRetryable ==
  \A e \in Execs :
    (exec[e].pc = "rejected" /\ ~AuthClassified(exec[e].lastErr))
      => exec[e].current >= maxRetries

\* ------------------------------------------------------- claims C8, C9, C10
\* C8: after failureThreshold consecutive failures, at every instant before timeout
\* has elapsed since the failure that opened the breaker, the breaker is OPEN,
\* isCallAllowed() returns false, and an execute() call made then is refused without
\* invoking the wrapped operation.
C8_OpenUntilTimeout ==
  (cbConsec >= failureThreshold /\ now < cbTrippedAt + cbTimeout)
    => /\ cb.state = "OPEN"
       /\ ~isCallAllowed(cb, now).ret
       /\ cbLast.op \in {"execute", "isCallAllowed"} => ~cbLast.ret /\ ~cbLast.invoked

\* C8's case: with the threshold reached and the timeout not yet over, execute() was
\* called and refused.
C8_Witness ==
  /\ cbConsec >= failureThreshold
  /\ now < cbTrippedAt + cbTimeout
  /\ cbLast.op = "execute"
  /\ cbLast.pre = "OPEN"
  /\ ~cbLast.ret

\* The calls in flight that were let through as the HALF_OPEN trial.
Trials == {c \in InFlight : cbCall[c].admitted = "HALF_OPEN"}

\* C9: once the open timeout has elapsed exactly one call is let through as the
\* HALF_OPEN trial: while it is in flight no further call is admitted, so there is
\* never more than one trial in flight, and an isCallAllowed()/execute() made while a
\* trial is in flight is refused.
C9_SingleTrial ==
  /\ Cardinality(Trials) <= 1
  /\ (cbLast.op = "isCallAllowed" /\ Trials # {}) => ~cbLast.ret

\* C10: when the breaker is HALF_OPEN, a call's failure moves it to OPEN with
\* nextRetryTime = (the time of the failure) + timeout, and a call's success moves it
\* to CLOSED with failureCount and successCount both zero.
C10_TrialOutcome ==
  /\ (cbLast.op = "onFailure" /\ cbLast.pre = "HALF_OPEN")
       => /\ cb.state = "OPEN"
          /\ cb.nextRetryTime = cbLast.time + cbTimeout
  /\ (cbLast.op = "onSuccess" /\ cbLast.pre = "HALF_OPEN")
       => /\ cb.state = "CLOSED"
          /\ cb.failureCount = 0
          /\ cb.successCount = 0

\* C10's case: the trial call, admitted when the timeout had elapsed, has succeeded
\* after earlier failures and closed the breaker.
C10_Witness ==
  /\ cbLast.op = "onSuccess"
  /\ cbLast.pre = "HALF_OPEN"
  /\ cbLast.admitted = "HALF_OPEN"
  /\ cbTrippedAt > 0
  /\ cb.state = "CLOSED"

\* ---------------------------------------------------------- claims C3, C4
\* The calls admitted by canMakeRequest() in the reporter's current window.
RateGateHolds ==
  LET info == requests["default"] IN
  info.present =>
    AcceptedIn("default", info.resetTime - windowMs, info.resetTime - 1) <= maxRequests

\* The quota counters never pass their limits.
QuotaGateHolds ==
  /\ usage.dailyUsed <= dailyLimit
  /\ usage.monthlyUsed <= monthlyLimit
  /\ usage.burstUsed <= burstLimit

\* C3: with several reportError calls in flight at once, the calls admitted past the
\* rate-limit gate in a window never exceed maxRequestsPerMinute, and the calls
\* admitted past the quota gate never exceed the budget that remained, so that the
\* daily, monthly and burst counters never pass their limits.
C3_GatesNeverOverAdmit == RateGateHolds /\ QuotaGateHolds

\* C4: the promise returned by reportError never rejects, whatever the network send
\* did and with offline support on or off: a report whose send failed for good is
\* dropped (counted by the monitor) when there is no offline queue and queued when
\* there is one, and the promise resolves.
C4_NeverRejects ==
  /\ erLast.settled \in {"", "resolved"}
  /\ \A c \in ErCalls : erCall[c].pc = "afterSend" => erCall[c].outcome \in {"sent", "queued"}
  /\ erLast.outcome = "failed" => ~enableOfflineSupport /\ metrics.errorsDropped > 0
  /\ erLast.outcome = "queued" => enableOfflineSupport

\* C4's case: without offline support a send failed for good (the retries exhausted
\* or the error not retried) and the promise of that reportError call resolved.
C4_Witness ==
  /\ ~enableOfflineSupport
  /\ erLast.outcome = "failed"
  /\ erLast.settled = "resolved"

\* ---------------------------------------------------------------- claim C11
\* C11: in every reachable state the offline queue holds at most maxQueueSize
\* entries, also while queueReport interleaves with a processQueue run that puts
\* failed reports back.
C11_QueueBounded == Len(queue) <= maxQueueSize

\* ---------------------------------------------------------------- claim C12
\* C12: every report that has been POSTed, directly or replayed from the offline
\* queue, had passed the rate-limit gate and the quota gate, and its payload passes
\* size validation.
C12_GatedBeforeNetwork ==
  \A id \in 1..Len(erPosts) :
    erPosts[id] > 0 => \E g \in erGated : g.report.id = id /\ g.report.fits

\* A replay from the queue has just been answered 2xx, while a gated report whose
\* payload is too large has never been POSTed.
C12_Witness ==
  /\ omLast.op = "sent"
  /\ erPosts[omLast.id] > 0
  /\ \E g \in erGated : ~g.report.fits /\ erPosts[g.report.id] = 0

\* ---------------------------------------------------------------- claim C13
\* C13: the offline queue holds only reports that passed the rate-limit gate, the
\* quota gate and payload-size validation: a report whose payload fails size
\* validation is never enqueued.
C13_QueueHoldsValidated ==
  \A i \in 1..Len(queue) :
    /\ \E g \in erGated : g.report = queue[i].report
    /\ queue[i].report.fits

\* ---------------------------------------------------------------- claim C14
\* C14: errorsReported and the quota usage count only reports that were
\* successfully sent: a report that was only queued, or dropped, is not counted and
\* consumes no quota.
C14_CountedOnlyWhenSent ==
  /\ metrics.errorsReported <= Cardinality(erDelivered)
  /\ usage.monthlyUsed <= Cardinality(erDelivered)

\* ---------------------------------------------------------------- claim C15
\* The report with this id is in the queue.
InQueue(id) == \E i \in 1..Len(queue) : queue[i].report.id = id

\* The report with this id is in the toProcess copy of a processQueue run.
InDrain(id) ==
  \E d \in Drainers : \E i \in 1..Len(drain[d]) : drain[d][i].report.id = id

\* processQueue has just finished the first replay of the report, which sendReport
\* had queued without a send because the browser was offline.
FirstReplayOf(g) ==
  /\ g.offline
  /\ omLast.id = g.report.id
  /\ \/ omLast.op = "sent" /\ omLast.attempts = 0
     \/ omLast.op \in {"requeued", "discarded"} /\ omLast.attempts = 1

Posted == {id \in 1..Len(erPosts) : erPosts[id] > 0}

\* The first maxRequests reports passed the duplicate check and the quota gate.
FirstAccepted == \A id \in 1..maxRequests : \E g \in erGated : g.report.id = id

C17_NoAgedReplay ==
  [][\A d \in Drainers :
       drain'[d] # <<>> /\ drain'[d] # drain[d] =>
         now' - Head(drain'[d]).timestamp <= maxAge]_vars

\* ---------------------------------------------------------------- claim C18
\* C18 as stated: a report whose replay fails stays queued until its attempts count
\* exceeds 3, and is discarded at that point.
C18_DiscardedAboveThree ==
  omLast.op = "discarded" => omLast.attempts > MaxAttempts

\* C18 as amended: a report whose replay succeeded is neither in the queue nor in a
\* run's copy; a report whose replay failed has its attempts incremented and is put
\* back at the tail of the queue while attempts is below 3, and is discarded when
\* attempts reaches 3; so a queued report never has 3 attempts and no report is
\* POSTed by processQueue more than 3 times.
C18_BoundedReplay ==
  /\ \A i \in 1..Len(queue) : queue[i].attempts < MaxAttempts
  /\ \A d \in Drainers : \A i \in 1..Len(drain[d]) : drain[d][i].attempts < MaxAttempts
  /\ \A id \in 1..Len(erPosts) : erPosts[id] <= MaxAttempts
  /\ omLast.op = "sent" => ~InQueue(omLast.id) /\ ~InDrain(omLast.id)
  /\ omLast.op = "requeued" =>
       /\ omLast.attempts < MaxAttempts
       /\ queue # <<>>
       /\ queue[Len(queue)].report.id = omLast.id
       /\ queue[Len(queue)].attempts = omLast.attempts
  /\ omLast.op = "discarded" =>
       /\ omLast.attempts = MaxAttempts
       /\ ~InQueue(omLast.id) /\ ~InDrain(omLast.id)

\* A report has just been discarded after its third failed replay.
C18_Witness ==
  /\ omLast.op = "discarded"
  /\ omLast.attempts = MaxAttempts
  /\ erPosts[omLast.id] = MaxAttempts

\* ---------------------------------------------------------------- claim C19
\* Every entry of q is younger than maxAge at time t.
AllFresh(q, t) == cleanupOldReports(q, t) = q

\* The entry queueReport makes of the report with this id at time t.
NewEntry(id, t) == [report |-> Report(id, TRUE), timestamp |-> t, attempts |-> 0]

\* C19 as stated: queueReport on a queue that holds maxQueueSize entries evicts
\* exactly the entry at the head and appends the new report at the tail, the other
\* entries keeping their order.
C19_EvictsOldest ==
  [][erStarted' = erStarted + 1 /\ Len(queue) = maxQueueSize =>
       queue' = Append(Tail(queue), NewEntry(erStarted', now))]_vars

\* C19 as amended: queueReport on a queue that holds maxQueueSize entries or more,
\* none of which has reached maxAge, evicts exactly the entry at the head (the
\* one longest in the queue since it was last put there, whatever its timestamp)
\* and appends the new report at the tail, the other entries keeping their order;
\* entries that have reached maxAge are purged first, and then the head is evicted
\* only if maxQueueSize entries are left.
C19_EvictsHeadAfterPurge ==
  [][erStarted' = erStarted + 1 /\ Len(queue) >= maxQueueSize =>
       /\ AllFresh(queue, now) => queue' = Append(Tail(queue), NewEntry(erStarted', now))
       /\ Len(cleanupOldReports(queue, now)) < maxQueueSize =>
            queue' = Append(cleanupOldReports(queue, now), NewEntry(erStarted', now))
       /\ stored' = queue']_vars

\* queueReport has just evicted the head of a full queue: the queue is full again,
\* the new report is at its tail, and an earlier report that was never sent is gone.
C19_Witness ==
  /\ omLast.op = "evicted"
  /\ Len(queue) = maxQueueSize
  /\ queue[Len(queue)] = NewEntry(omLast.id, now)
  /\ AllFresh(queue, now)
  /\ \E id \in 1..Len(erPosts) :
       erPosts[id] = 0 /\ ~InQueue(id) /\ ~InDrain(id) /\ id < queue[1].report.id

\* ---------------------------------------------------------------- claim C20
\* C20: destroy() does not discard persisted state: the offline-queue record in
\* localStorage holds the same queued reports after destroy() as before.
C20_DestroyKeepsStorage ==
  [][omLast'.op = "cleared" => stored' = stored]_vars

InitFingerprint ==
  /\ now = 1 /\ RLIdle /\ RetryIdle /\ CBInit /\ ERIdle
  /\ QuotaIdle /\ ConfigIdle /\ SanitizeIdle /\ BatchIdle /\ BreadcrumbIdle /\ FingerprintInit /\ MonitorIdle /\ TwinIdle

SpecFingerprint == InitFingerprint /\ [][NextFingerprint]_vars

InitMonitor ==
  /\ now = 1 /\ RLIdle /\ RetryIdle /\ CBInit /\ ERIdle
  /\ QuotaIdle /\ ConfigIdle /\ SanitizeIdle /\ BatchIdle /\ BreadcrumbIdle /\ FingerprintIdle /\ MonitorInit /\ TwinIdle

SpecMonitor == InitMonitor /\ [][NextMonitor]_vars

\* Two limiters built with the same maxRequests, at any instant of the clock.
InitTwin ==
  /\ now \in 0..1 /\ RLInit /\ RetryIdle /\ CBInit /\ ERIdle
  /\ QuotaIdle /\ ConfigIdle /\ SanitizeIdle /\ BatchIdle /\ BreadcrumbIdle
  /\ FingerprintIdle /\ MonitorIdle /\ TwinInit

SpecTwin == InitTwin /\ [][NextTwin]_vars

(***************************************************************************)
(* QuotaManager claims                                                     *)
(***************************************************************************)

\* What the last canSendError was asked and the counters it looked at.
SizeViolated == quotaLast.size # 0 /\ quotaLast.size > payloadSizeLimit
DailyViolated == usage.dailyUsed >= dailyLimit
MonthlyViolated == usage.monthlyUsed >= monthlyLimit
BurstViolated == usage.burstUsed >= burstLimit

\* The recordErrorSent calls made since the start of the day.
SentToday == SumOver(quotaSent, {t \in Times : getDayStartTimestamp(now) <= t /\ t <= now})

\* C21: canSendError answers with the first violated constraint in the order payload
\* size, daily, monthly, burst (and allows when none is violated); in particular an
\* exhausted daily budget is reported as "Daily limit" even when the burst budget
\* is exhausted too.
C21_FirstViolated ==
  quotaLast.op = "canSendError" =>
    quotaLast.reason =
      IF SizeViolated THEN "Payload size"
      ELSE IF DailyViolated THEN "Daily limit"
      ELSE IF MonthlyViolated THEN "Monthly limit"
      ELSE IF BurstViolated THEN "Burst limit"
      ELSE ""

\* dailyLimit reports were counted today, the burst budget is used up as well, and
\* canSendError answered "Daily limit".
C21_Witness ==
  /\ quotaLast.op = "canSendError"
  /\ quotaLast.reason = "Daily limit"
  /\ SentToday >= dailyLimit
  /\ DailyViolated /\ BurstViolated

\* The recordErrorSent calls made in the month so far, and in the last burstWindowMs.
SentThisMonth ==
  SumOver(quotaSent, {t \in Times : getMonthStartTimestamp(now) <= t /\ t <= now})
SentInBurstWindow ==
  SumOver(quotaSent, {t \in Times : now - burstWindowMs < t /\ t <= now})

\* A step that is a canSendError call.
CanSendErrorStep == now' = now /\ quotaLast'.op = "canSendError"

\* C22: canSendError never denies on an expired counter.  When the burst window has
\* elapsed since the last burst reset the answer is not "Burst limit", when the day
\* (month) boundary has passed since the last daily (monthly) reset it is not
\* "Daily limit" ("Monthly limit") unless reports were counted since; and every
\* denial is backed by that many recordErrorSent calls inside the current window.
C22_NoStaleDenial ==
  [][CanSendErrorStep =>
       /\ now - usage.lastResetBurst >= burstWindowMs => quotaLast'.reason # "Burst limit"
       /\ usage.lastResetDaily < getDayStartTimestamp(now)
            => quotaLast'.reason # "Daily limit"
       /\ usage.lastResetMonthly < getMonthStartTimestamp(now)
            => quotaLast'.reason # "Monthly limit"
       /\ quotaLast'.reason = "Burst limit" => SentInBurstWindow >= burstLimit
       /\ quotaLast'.reason = "Daily limit" => SentToday >= dailyLimit
       /\ quotaLast'.reason = "Monthly limit" => SentThisMonth >= monthlyLimit]_vars

\* Reports were counted up to the daily and the burst limit, the day and the burst
\* window have since passed, and canSendError allows again on rolled-over counters.
C22_Witness ==
  /\ quotaLast.op = "canSendError" /\ quotaLast.reason = ""
  /\ SumOver(quotaSent, Times) >= dailyLimit
  /\ SumOver(quotaSent, Times) >= burstLimit
  /\ SentToday = 0 /\ SentInBurstWindow = 0
  /\ usage.dailyUsed = 0 /\ usage.burstUsed = 0
  /\ usage.lastResetDaily = getDayStartTimestamp(now)

\* The stored text is a usage record whose counters are numbers.
WellFormed(st) ==
  /\ st.kind = "record"
  /\ NotANumber \notin {st.usage.dailyUsed, st.usage.monthlyUsed, st.usage.burstUsed}

\* C23: no QuotaManager call throws on a storage failure, and a QuotaManager
\* constructed over missing, unreadable or corrupt persisted data starts from a
\* zeroed usage record.
C23_FreshOnCorrupt ==
  /\ ~quotaLast.threw
  /\ quotaLast.op = "constructor" /\ ~WellFormed(quotaStorage)
       => usage.dailyUsed = 0 /\ usage.monthlyUsed = 0 /\ usage.burstUsed = 0

\* The part that holds: nothing is thrown, and data that cannot be read or parsed
\* gives zeroed counters.
C23_FreshOnUnreadable ==
  /\ ~quotaLast.threw
  /\ quotaLast.op = "constructor" /\ quotaStorage.kind # "record"
       => usage.dailyUsed = 0 /\ usage.monthlyUsed = 0 /\ usage.burstUsed = 0

(***************************************************************************)
(* ErrorReporter configuration claims                                      *)
(***************************************************************************)

\* The URL and the token pass the checks of validateConfiguration.
ValidPair(cfg) == ~validateConfiguration(cfg, secEnv)

\* C24: a constructor given an invalid URL or an invalid token throws, and no
\* report is ever sent by a reporter holding an invalid URL or token.
C24_FailsFast ==
  /\ cfgLast.op = "constructor" /\ ~ValidPair(cfgLast.updates) => cfgLast.threw
  /\ cfgLast.op = "reportError" => ValidPair(reporter)

\* C25: updateConfig throws when the update sets apiUrl or projectToken to an
\* invalid value, and does not throw when the update carries neither key.
C25_UpdateValidates ==
  cfgLast.op = "updateConfig" =>
    LET u == cfgLast.updates IN
    /\ ("apiUrl" \in u.has
          /\ ~validateApiUrl(u.apiUrl, secEnv.requireHttps, secEnv.production))
         => cfgLast.threw
    /\ ("projectToken" \in u.has /\ ~validateProjectToken(u.projectToken))
         => cfgLast.threw
    /\ u.has \cap {"apiUrl", "projectToken"} = {} => ~cfgLast.threw

\* The part that holds: an update carrying neither key never throws.
C25_UntouchedNeverThrows ==
  cfgLast.op = "updateConfig" /\ cfgLast.updates.has \cap {"apiUrl", "projectToken"} = {}
    => ~cfgLast.threw

(***************************************************************************)
(* SecurityValidator claims                                                *)
(***************************************************************************)

RECURSIVE SecretsRedacted(_)
\* In sanitized data every secret key, at whatever level, holds the redaction marker.
SecretsRedacted(obj) ==
  \A i \in 1..Len(obj.items) :
    IF obj.items[i].key \in SecretKeys
      THEN obj.items[i].value = Str("[REDACTED]")
      ELSE SecretsRedacted(obj.items[i].value)

\* C26: the sanitized payload does not depend on the values under sensitive keys:
\* two payloads that differ only there sanitize to the same data, in which every
\* sensitive key at every level holds "[REDACTED]".
C26_SecretsNotInPayload ==
  sanResult.done =>
    /\ sanResult.out = sanResult.twinOut
    /\ SecretsRedacted(sanResult.out)

\* Sanitized data whose secret key sits one level down, under a plain key, and
\* holds different values in the data and in its twin.
C26_Witness ==
  /\ sanResult.done
  /\ sanInput.items[1].key = "normalData"
  /\ sanInput.items[1].value.kind = "object"
  /\ sanInput.items[1].value.items[1].key = "apiKey"
  /\ sanInput.items[1].value.items[1].value # sanTwin.items[1].value.items[1].value
  /\ sanResult.out.items[1].value.items[1].value = Str("[REDACTED]")

(***************************************************************************)
(* BatchManager claims                                                     *)
(***************************************************************************)

\* The ids of the reports of a batch.
IdsOf(batch) == {batch[i].id : i \in 1..Len(batch)}

\* The report is in the batch being filled / has gone to the send function.
InCurrentBatch(id) == id \in IdsOf(currentBatch)
HandedOver(id) == \E i \in 1..Len(batHanded) : id \in IdsOf(batHanded[i])

\* C27: a batch is out of memory from the moment it is handed to the send function:
\* no report of a handed batch is in the current batch or in another handed batch,
\* whether the send is in flight, succeeded or failed; a failed send under flush()
\* reaches the caller of flush() as a rejection; reports added during a send are in
\* a batch of their own.
C27_FailedBatchNotKept ==
  /\ \A i \in 1..Len(batHanded) :
       /\ IdsOf(batHanded[i]) \cap IdsOf(currentBatch) = {}
       /\ \A j \in 1..Len(batHanded) : i # j => IdsOf(batHanded[i]) \cap IdsOf(batHanded[j]) = {}
  /\ \A f \in batInFlight : IdsOf(f.batch) \cap IdsOf(currentBatch) = {}
  /\ batLast.outcome \in {"rejected", "unhandled rejection"} =>
       /\ batLast.outcome = "rejected" <=> batLast.caller = "flush"
       /\ IdsOf(batLast.batch) \cap IdsOf(currentBatch) = {}

\* A send under flush() has failed and its caller got the rejection; the reports
\* added while it was in flight have since been handed over as a later batch, which
\* holds none of the failed reports.
C27_Witness ==
  /\ batLast.caller = "flush" /\ batLast.outcome = "rejected"
  /\ Len(batHanded) >= 2
  /\ batHanded[Len(batHanded) - 1] = batLast.batch
  /\ IdsOf(batHanded[Len(batHanded)]) \cap IdsOf(batLast.batch) = {}
  /\ batHanded[Len(batHanded)][1].id = batLast.batch[Len(batLast.batch)].id + 1

Settles(e) == exec[e].pc = "operation" /\ exec'[e].pc \in {"resolved", "rejected"}

\* C29: at the step in which an executeWithRetry call settles, by success or by
\* final failure, the counter of its operation id is cleared (isRetrying false,
\* getRetryCount 0) and the counter of every other operation id is unchanged.
C29_SettleClearsOwnCounter ==
  [][\A e \in Execs :
       Settles(e) =>
         /\ ~isRetrying(retryCount', exec[e].id)
         /\ getRetryCount(retryCount', exec[e].id) = 0
         /\ \A i \in OpIds \ {exec[e].id} : retryCount'[i] = retryCount[i]]_vars

\* A call has failed for good after a retry and its counter is gone, while a call
\* on another operation id waits for its retry with its counter in place.
C29_Witness ==
  \E e, d \in Execs :
    /\ exec[e].pc = "rejected" /\ exec[e].invoked >= 2
    /\ ~isRetrying(retryCount, exec[e].id)
    /\ exec[d].pc = "delay" /\ exec[d].id # exec[e].id
    /\ getRetryCount(retryCount, exec[d].id) = exec[d].current + 1

(***************************************************************************)
(* BreadcrumbManager claims                                                *)
(***************************************************************************)

\* The last n breadcrumbs added since the trail was last emptied are the trail's
\* own; of all breadcrumbs added, the most recent n in insertion order.
MostRecent(n) ==
  IF n >= Len(bcAdded) THEN bcAdded ELSE SubSeq(bcAdded, Len(bcAdded) - n + 1, Len(bcAdded))

\* C30: whatever maxBreadcrumbs is configured, the trail holds at most
\* maxBreadcrumbs entries, and they are the most recently added breadcrumbs in
\* insertion order.
C30_TrailBounded ==
  /\ Len(breadcrumbs) <= maxBreadcrumbs
  /\ breadcrumbs = MostRecent(Len(breadcrumbs))

\* The part that holds: with maxBreadcrumbs of 1 or more.
C30_TrailBoundedWhenPositive ==
  maxBreadcrumbs >= 1 =>
    /\ Len(breadcrumbs) <= maxBreadcrumbs
    /\ breadcrumbs = MostRecent(Len(breadcrumbs))

(***************************************************************************)
(* createErrorFingerprint claims                                           *)
(***************************************************************************)

TwoFingerprints == fpPrev.called /\ fpLast.called

\* Identical (error, additionalData) yield the identical output of 32 characters.
C31_Deterministic ==
  /\ fpLast.called => Len(fpLast.out) = fingerprintLength
  /\ (TwoFingerprints /\ fpPrev.error = fpLast.error /\ fpPrev.data = fpLast.data)
       => fpPrev.out = fpLast.out

\* Two errors that differ in their message only, with the same additionalData.
OtherMessage ==
  /\ TwoFingerprints
  /\ fpPrev.error.message # fpLast.error.message
  /\ fpPrev.error.stack = fpLast.error.stack
  /\ fpPrev.data = fpLast.data

\* The same error with two different additionalData.
OtherData ==
  /\ TwoFingerprints
  /\ fpPrev.error = fpLast.error
  /\ fpPrev.data # fpLast.data

\* C31: createErrorFingerprint is deterministic and input-sensitive: identical
\* (error, additionalData) always yield the identical 32-character output, while
\* changing the error message, or passing different additionalData for the same
\* error, changes the output.
C31_DeterministicAndSensitive ==
  /\ C31_Deterministic
  /\ OtherMessage => fpPrev.out # fpLast.out
  /\ OtherData => fpPrev.out # fpLast.out

\* The part of C31 about the message alone.
C31_MessageChangesOutput == OtherMessage => fpPrev.out # fpLast.out

\* The part of C31 about additionalData alone.
C31_DataChangesOutput == OtherData => fpPrev.out # fpLast.out

\* The fingerprint of new Error('A') without a stack: the hash of "|A|Error" is
\* -1759406479, and the output is "LTE3NTk0MDY0Nzk=" padded with sixteen '0'.
KnownFingerprint ==
  <<76, 84, 69, 51, 78, 84, 107, 48, 77, 68, 89, 48, 78, 122, 107, 61>>
  \o [i \in 1..16 |-> 48]

C31_KnownValue ==
  (fpLast.called /\ fpLast.error = FpError(<<65>>, <<>>)) => fpLast.out = KnownFingerprint

(***************************************************************************)
(* CircuitBreaker claims: late completions and the failure count           *)
(***************************************************************************)

\* The awaited operation of a call admitted while CLOSED settles when the breaker
\* is OPEN or HALF_OPEN.
LateCompletion ==
  \E c \in CbCalls :
    /\ CbOperationSucceeds(c) \/ CbOperationFails(c)
    /\ cbCall[c].admitted = "CLOSED"
    /\ cb.state \in {"OPEN", "HALF_OPEN"}

\* C32: the breaker's state is changed only by the outcome of a call it admitted
\* in its current state: the completion of a call admitted while CLOSED that
\* finishes after the breaker has become OPEN or HALF_OPEN neither changes the
\* state (in particular does not close the breaker) nor moves nextRetryTime.
C32_LateCompletionIgnored ==
  [][LateCompletion => (cb'.state = cb.state /\ cb'.nextRetryTime = cb.nextRetryTime)]_vars

\* The part of C32 about a late completion that meets the breaker OPEN: the
\* breaker stays OPEN.
C32_LateCompletionKeepsOpen ==
  [][(LateCompletion /\ cb.state = "OPEN") => cb'.state = "OPEN"]_vars

\* C33: the breaker leaves CLOSED only after failureThreshold consecutive
\* failures: when onFailure takes the breaker from CLOSED to OPEN, the last
\* failureThreshold completed calls all failed.
C33_TripsOnConsecutiveOnly ==
  (cbLast.op = "onFailure" /\ cbLast.pre = "CLOSED" /\ cb.state = "OPEN")
    => cbConsec >= failureThreshold

\* The converse, for calls that do not overlap: failureThreshold consecutive
\* failures do take the breaker out of CLOSED.
C33_ConsecutiveFailuresTrip ==
  (cbLast.op = "onFailure" /\ cbLast.pre = "CLOSED" /\ cbConsec >= failureThreshold)
    => cb.state = "OPEN"

(***************************************************************************)
(* reportError: the two admission gates                                    *)
(***************************************************************************)

\* A reportError call runs its gates in this step; its fingerprint is rlLast'.arg.
GateStep == erStarted' = erStarted + 1

\* The report of this step is a duplicate: canReportError refuses its fingerprint.
DroppedAsDuplicate ==
  GateStep /\ ~canReportError(recentErrors, rlLast'.arg, now).ret

\* The report of this step exceeds the throughput window: canMakeRequest refuses it.
DroppedByWindow ==
  GateStep /\ ~canMakeRequest(requests, "default", now, maxRequests).ret

\* The part of C34 about duplicates: a duplicate consumes no slot of the window.
C34_DuplicateTakesNoSlot == [][DroppedAsDuplicate => requests' = requests]_vars

\* The part of C34 about the window: a report the window refuses does not
\* register its fingerprint.
C34_RefusedNotRegistered == [][DroppedByWindow => recentErrors' = recentErrors]_vars

\* C34: in reportError, a report rejected by one of the two admission gates leaves
\* the other gate's state untouched: a report dropped as a duplicate does not
\* consume a slot of the maxRequestsPerMinute window, and a report dropped by the
\* throughput window does not register its fingerprint as recently reported.
C34_GatesIndependent ==
  [][/\ DroppedAsDuplicate => requests' = requests
     /\ DroppedByWindow => recentErrors' = recentErrors]_vars

\* What does hold: a report refused by either gate is dropped, nothing is posted
\* or queued for it and it is counted as dropped.
C34_RefusedIsDropped ==
  [][(DroppedAsDuplicate \/ DroppedByWindow)
       => /\ metrics'.errorsDropped = metrics.errorsDropped + 1
          /\ queue' = queue /\ erCall' = erCall /\ usage' = usage]_vars

(***************************************************************************)
(* RetryManager: overlapping calls and clearRetryCount                     *)
(***************************************************************************)

\* C35: for any interleaving of executeWithRetry calls, including calls that share
\* an operation id and calls to clearRetryCount made while a retry delay is
\* pending, each executeWithRetry call invokes its operation at most
\* maxRetries + 1 times (the bound without which the call need not settle).
C35_InvokedAtMostMaxRetriesPlusOne ==
  \A e \in Execs : exec[e].invoked <= maxRetries + 1

\* The same bound for the calls nothing interferes with: no other call uses their
\* operation id and clearRetryCount is not called on it.
C35_UndisturbedBounded ==
  \A e \in Execs : Undisturbed(e) => exec[e].invoked <= maxRetries + 1

\* An undisturbed call has used all its invocations.
C35_UndisturbedWitness ==
  \E e \in Execs :
    Undisturbed(e) /\ maxRetries = MaxRetriesCfg /\ exec[e].invoked = maxRetries + 1
      /\ exec[e].pc = "rejected"

(***************************************************************************)
(* OfflineManager: overlapping processQueue runs                           *)
(***************************************************************************)

\* Where a report is held: at a position of the queue or of the copy a
\* processQueue run is working through.
PlacesOf(id) ==
  {<<"queue", i>> : i \in {j \in 1..Len(queue) : queue[j].report.id = id}}
  \cup UNION {{<<d, i>> : i \in {j \in 1..Len(drain[d]) : drain[d][j].report.id = id}} :
              d \in Drainers}

\* The reports held in the queue or by a run.
HeldIds == {id \in 1..erStarted : PlacesOf(id) # {}}

\* A processQueue run is between two of its sends.
RunInProgress == \E d \in Drainers : drain[d] # <<>>

\* No report is held twice: it is in the queue or with one run, at one position, so
\* two runs never send the same report at the same time.
HeldOnce == \A id \in 1..erStarted : Cardinality(PlacesOf(id)) <= 1

\* The step is a successful send of the report / the discard of the report after
\* its MaxAttempts-th failed send.
SentNow(id) == omLast'.op = "sent" /\ omLast'.id = id
DiscardedAtCeiling(id) ==
  omLast'.op = "discarded" /\ omLast'.id = id /\ omLast'.attempts >= MaxAttempts

\* The step is a queueReport call that removes the report from the queue: the
\* report has reached maxAge, or it is the head of a queue that is still full.
RemovedByQueueReport(id) ==
  /\ erStarted' = erStarted + 1
  /\ omLast'.op \in {"queued", "evicted"}
  /\ \E i \in 1..Len(queue) :
       /\ queue[i].report.id = id
       /\ \/ now - queue[i].timestamp >= maxAge
          \/ /\ Len(cleanupOldReports(queue, now)) >= maxQueueSize
             /\ queue[i] = Head(cleanupOldReports(queue, now))

\* The step is clearQueue().
ClearedNow == omLast'.op = "cleared"

\* C36 as stated: when processQueue runs overlap with each other or with
\* queueReport, no queued report is sent by two runs at the same time and none is
\* silently lost: each report that was in the queue is either sent successfully,
\* back in the queue (or still with its run), or discarded at the attempts ceiling.
C36_NoneLostAsStated ==
  /\ []HeldOnce
  /\ [][(RunInProgress /\ ~ClearedNow) =>
          \A id \in HeldIds :
            id \in HeldIds' \/ SentNow(id) \/ DiscardedAtCeiling(id)]_vars

\* C36 as amended: no report is held twice, and a report leaves the queue and the
\* runs only by a successful send, by the discard at the attempts ceiling, by the
\* purge or the eviction of a queueReport call, or by clearQueue.
C36_NoDoubleSendNoLoss ==
  /\ []HeldOnce
  /\ [][\A id \in HeldIds :
          \/ id \in HeldIds'
          \/ SentNow(id)
          \/ DiscardedAtCeiling(id)
          \/ RemovedByQueueReport(id)
          \/ ClearedNow]_vars

\* C36's case: two runs are in progress at once, and one of them has just put a
\* report whose send failed back into the queue.
C36_Witness ==
  /\ drain["online"] # <<>>
  /\ drain["flush"] # <<>>
  /\ omLast.op = "requeued"
  /\ queue # <<>>

(***************************************************************************)
(* OfflineManager: the persisted queue                                     *)
(***************************************************************************)

\* The reports localStorage['errorReporter_queue'] holds.
StoredIds == {stored[i].report.id : i \in 1..Len(stored)}

\* C37: every mutation of the in-memory offline queue is written to durable
\* storage before the next suspension point: whenever the code is suspended the
\* persisted queue equals the in-memory queue and holds no report that was
\* already delivered.
C37_PersistedAtEveryAwait ==
  /\ stored = persistQueue(queue)
  /\ StoredIds \cap erDelivered = {}

\* The part of C37 that holds: once no processQueue run is in progress, the
\* persisted queue is the in-memory queue.
C37_PersistedWhenNoRun == ~RunInProgress => stored = persistQueue(queue)

\* A run has delivered a report that localStorage still holds.
C37_DeliveredStillStored ==
  RunInProgress /\ StoredIds \cap erDelivered # {}

(***************************************************************************)
(* SDKMonitor: the request counters                                        *)
(***************************************************************************)

\* C38: every network send attempt is counted exactly once by the monitor: each
\* call of sendReportDirectly increments exactly one of requestsSuccessful or
\* requestsFailed by one, so requestsSuccessful + requestsFailed always equals the
\* number of completed send attempts.
C38_CountedExactlyOnce ==
  sdkMetrics.requestsSuccessful + sdkMetrics.requestsFailed = Len(sdkSends)

\* The part of C38 that holds: successful sends are counted exactly once, and a
\* failed send is never counted as successful nor left out.
C38_SuccessesCountedOnce ==
  /\ sdkMetrics.requestsSuccessful = Cardinality({i \in 1..Len(sdkSends) : sdkSends[i] = "ok"})
  /\ sdkMetrics.requestsFailed >= Cardinality({i \in 1..Len(sdkSends) : sdkSends[i] # "ok"})

\* One send that the server answered with 429 has been counted three times.
C38_CountedThrice ==
  sdkSends = <<"429">> /\ sdkMetrics.requestsFailed = 3

(***************************************************************************)
(* ErrorReporter.updateConfig: a rejected update                           *)
(***************************************************************************)

\* This step is an updateConfig call that throws.
UpdateThrows == cfgLast'.op = "updateConfig" /\ cfgLast'.threw

\* C39: when updateConfig throws a configuration error, the reporter's
\* configuration is unchanged: the previously valid apiUrl and projectToken remain
\* in effect for all subsequent sends.
C39_RejectedUpdateChangesNothing ==
  [][UpdateThrows =>
       /\ reporter'.apiUrl = reporter.apiUrl
       /\ reporter'.projectToken = reporter.projectToken
       /\ reporter'.enabled = reporter.enabled]_vars

\* What the code does instead: the update is in effect whether or not the call
\* throws.
C39_UpdateAlwaysApplied ==
  [][cfgLast'.op = "updateConfig" => reporter' = Merged(reporter, cfgLast'.updates)]_vars

\* A report is sent with the URL an updateConfig call has just rejected.
C39_SendsWithRejectedUrl ==
  /\ cfgLast.op = "reportError"
  /\ ~validateApiUrl(reporter.apiUrl, secEnv.requireHttps, secEnv.production)

(***************************************************************************)
(* RateLimiter.cleanup claims                                              *)
(***************************************************************************)

\* C40: running cleanup() at any moment never changes the result of any later
\* canMakeRequest, canReportError or getRemainingRequests call: every call returns
\* the same on the limiter that is cleaned up as on the one that never is.
C40_CleanupUnobservable == twinObs.real = twinObs.twin

\* C40's case: cleanup() has deleted the entry a call looks at, which the limiter
\* that is never cleaned up still holds, for each of the three calls.
C40_Witness ==
  /\ twinObs.differed
  /\ twinObs.op = "canReportError"
  /\ twinObs.real = 1

C40_WitnessWindow ==
  twinObs.differed /\ twinObs.op = "canMakeRequest" /\ twinObs.real = 1

C40_WitnessRemaining ==
  twinObs.differed /\ twinObs.op = "getRemainingRequests" /\ twinObs.real = maxRequests
====
